---- MODULE Spec2Model ----
(***************************************************************************)
(* Hubspace integration for Home Assistant: the poll coordinator, the      *)
(* per-entity function/state index, the platform set-up of lights, fans    *)
(* and switches, and the value codecs.                                     *)
(*                                                                         *)
(* JSON objects of the vendor API are records.  A state document (the      *)
(* "state" member of a device record, or the response of a state update)   *)
(* is a mutable Python dict that several objects may reference, so state   *)
(* documents live in `heap` and are referred to by number; everything      *)
(* else in a device record is never written to and is kept by value.       *)
(***************************************************************************)
EXTENDS Integers, Sequences, FiniteSets, TLC

VARIABLES
    cloud,                \* the vendor's current device listing (GET .../metadevices)
    setup,                \* position of __init__.async_setup_entry
    data,                 \* coordinator.data: the snapshot, device records in dict order
    hasData,              \* FALSE while coordinator.data is None
    heap,                 \* state documents by reference
    entities,             \* the entities added to the host, in listener order
    loaded,               \* platforms whose async_setup_entry has run
    pollState,            \* "idle" | "fetching"
    fetched,              \* how the last listing call ended ("none": never called)
    last_update_success,  \* DataUpdateCoordinator.last_update_success
    last_exception,       \* kind of the exception _async_update_data raised last
    codec,                \* a value codec at work: its input and its results
    client,               \* HubspaceClient: the token cache, against the clock
    call,                 \* the host's call on an entity: what it asked, what came back
    sent,                 \* the state updates that have reached the vendor
    hostAborts,           \* the host's version: a listener that raises ends the round
    failures,             \* failed fetches in a row before the fetch running or finished last
    clock,                \* the wall clock, in ms
    tokens                \* the token requests the vendor has answered: when, with what

vars == <<cloud, setup, data, hasData, heap, entities, loaded, pollState,
          fetched, last_update_success, last_exception, codec, client, call, sent,
          hostAborts, failures, clock, tokens>>

\* What the coordinator and the set-up leave alone.
auxVars == <<codec, client, call, sent, clock, tokens>>

\* The coordinator and the set-up, without the entities and the documents.
mainVarsButEntitiesAndHeap == <<cloud, setup, data, hasData, loaded, pollState,
                                fetched, last_update_success, last_exception,
                                hostAborts, failures>>

\* The coordinator and the set-up, without the entities.
mainVarsButEntities == <<cloud, setup, data, hasData, heap, loaded, pollState,
                         fetched, last_update_success, last_exception, hostAborts, failures>>

-----------------------------------------------------------------------------
(* Values of the wire format.  A JSON value is a string, a number or null; *)
(* the tag keeps comparisons between them well defined.                    *)

StrV(s) == [t |-> "str", s |-> s, n |-> 0]
NumV(n) == [t |-> "num", s |-> "", n |-> n]
NoneV == [t |-> "none", s |-> "", n |-> 0]
BoolV(b) == [t |-> "bool", s |-> "", n |-> IF b THEN 1 ELSE 0]

\* Python None as a function instance (the functionInstance key is absent).
None == "None"

\* FunctionClass members (const.py); UNSUPPORTED is what a missing
\* functionClass key reads as.
POWER == "power"
BRIGHTNESS == "brightness"
COLOR_TEMPERATURE == "color-temperature"
FAN_SPEED == "fan-speed"
TOGGLE == "toggle"
AVAILABLE == "available"
UNSUPPORTED == "unsupported"

TOGGLE_ENABLED == "enabled"
TOGGLE_DISABLED == "disabled"
STATE_ON == "on"
STATE_OFF == "off"

\* No state document ("state" absent, null or an empty dict: all falsy).
NoDoc == 0

\* References available for state documents.
NumDocs == 11
DocIds == 1..NumDocs

Fn(fc, fi, values) == [functionClass |-> fc, functionInstance |-> fi, values |-> values]
SV(fc, fi, v) == [functionClass |-> fc, functionInstance |-> fi, value |-> v]

\* A record of the listing; hasState = FALSE when it carries no state document.
Rec(typeId, id, deviceClass, functions, hasState, values) ==
    [typeId |-> typeId, id |-> id, deviceClass |-> deviceClass,
     functions |-> functions, hasState |-> hasState, values |-> values]

-----------------------------------------------------------------------------
(* The listings the vendor may report.                                     *)

PowerFn == Fn(POWER, None, <<"on", "off">>)
BrightnessFn == Fn(BRIGHTNESS, None, <<>>)
FanSpeedFn ==
    Fn(FAN_SPEED, "fan-speed",
       <<"fan-speed-000", "fan-speed-025", "fan-speed-050", "fan-speed-075", "fan-speed-100">>)
ToggleFn(fi) == Fn(TOGGLE, fi, <<"enabled", "disabled">>)
OutletFn(fi) == Fn(TOGGLE, fi, <<"on", "off">>)

Room == Rec("metadevice.room", "r1", "light", <<>>, FALSE, <<>>)

LightA ==
    Rec("metadevice.device", "d1", "light", <<PowerFn, BrightnessFn>>, TRUE,
        <<SV(POWER, None, StrV("on")), SV(BRIGHTNESS, None, NumV(50))>>)
LightB ==
    Rec("metadevice.device", "d1", "light", <<PowerFn, BrightnessFn>>, TRUE,
        <<SV(POWER, None, StrV("off")), SV(BRIGHTNESS, None, NumV(100)),
          SV(POWER, None, StrV("on"))>>)
LightNoState ==
    Rec("metadevice.device", "d1", "light", <<PowerFn>>, FALSE, <<>>)

FanA ==
    Rec("metadevice.device", "d2", "fan",
        <<PowerFn, FanSpeedFn, ToggleFn("comfort-breeze"), ToggleFn("eco")>>, TRUE,
        <<SV(POWER, None, StrV("off")),
          SV(FAN_SPEED, "fan-speed", StrV("fan-speed-050")),
          SV(TOGGLE, "comfort-breeze", StrV("disabled")),
          SV(TOGGLE, None, StrV("enabled")),
          SV("timer", "sleep", StrV("enabled")),
          SV(TOGGLE, "eco", StrV("disabled"))>>)
FanB ==
    Rec("metadevice.device", "d2", "fan",
        <<PowerFn, FanSpeedFn, ToggleFn("comfort-breeze"), ToggleFn("eco")>>, TRUE,
        <<SV(POWER, None, StrV("on")),
          SV(UNSUPPORTED, None, StrV("enabled")),
          SV(FAN_SPEED, "fan-speed", StrV("fan-speed-100")),
          SV(TOGGLE, "comfort-breeze", StrV("disabled")),
          SV(TOGGLE, "eco", StrV("enabled"))>>)

Outlet2A ==
    Rec("metadevice.device", "d3", "power-outlet",
        <<OutletFn("outlet-1"), PowerFn, OutletFn("outlet-2")>>, TRUE,
        <<SV(TOGGLE, "outlet-1", StrV("on")), SV(TOGGLE, "outlet-2", StrV("off"))>>)
Outlet2B ==
    Rec("metadevice.device", "d3", "power-outlet",
        <<OutletFn("outlet-1"), PowerFn, OutletFn("outlet-2")>>, TRUE,
        <<SV(TOGGLE, "outlet-1", StrV("off")), SV(TOGGLE, "outlet-2", StrV("on"))>>)
Outlet1 ==
    Rec("metadevice.device", "d3", "power-outlet", <<OutletFn("outlet-1")>>, TRUE,
        <<SV(TOGGLE, "outlet-1", StrV("on")), SV(AVAILABLE, None, BoolV(FALSE))>>)
Outlet0 ==
    Rec("metadevice.device", "d3", "power-outlet", <<PowerFn>>, TRUE,
        <<SV(POWER, None, StrV("on"))>>)
SwitchA ==
    Rec("metadevice.device", "d4", "switch", <<OutletFn(None)>>, TRUE,
        <<SV(TOGGLE, None, StrV("on")), SV(TOGGLE, None, StrV("off"))>>)

CeilingFan ==
    Rec("metadevice.device", "d5", "ceiling-fan", <<PowerFn, FanSpeedFn>>, TRUE,
        <<SV(POWER, None, StrV("on")),
          SV(FAN_SPEED, "fan-speed", StrV("fan-speed-050"))>>)

Listings ==
    { <<Room, LightA, FanA, Outlet2A, CeilingFan>>,
      <<LightB, FanB, Outlet2B>>,
      <<FanA, Outlet1, FanB>>,
      <<Outlet0, SwitchA, LightNoState>> }

-----------------------------------------------------------------------------
(* HubspaceClient.pull_coordinator_data: index the listing by id.          *)

\* indexed_devices[device_id] = lis: a repeated id keeps its place in the
\* dict and takes the later record.
DictPut(acc, lis) ==
    IF \E j \in 1..Len(acc) : acc[j].id = lis.id
    THEN [j \in 1..Len(acc) |-> IF acc[j].id = lis.id THEN lis ELSE acc[j]]
    ELSE Append(acc, lis)

RECURSIVE IndexDevices(_, _, _)
IndexDevices(results, i, indexed_devices) ==
    IF i > Len(results) THEN indexed_devices
    ELSE IndexDevices(results, i + 1,
            IF results[i].typeId = "metadevice.device"
            THEN DictPut(indexed_devices, results[i])
            ELSE indexed_devices)

\* Mutant: every record of the listing is indexed, whatever its typeId.
RECURSIVE IndexAll(_, _, _)
IndexAll(results, i, indexed_devices) ==
    IF i > Len(results) THEN indexed_devices
    ELSE IndexAll(results, i + 1, DictPut(indexed_devices, results[i]))
pull_coordinator_data_unfiltered(results) == IndexAll(results, 1, <<>>)

pull_coordinator_data(results) == IndexDevices(results, 1, <<>>)

-----------------------------------------------------------------------------
(* State documents by reference.                                           *)

Ids(d) == {d[j].id : j \in 1..Len(d)}
Lookup(d, id) == d[CHOOSE j \in 1..Len(d) : d[j].id = id]

\* Documents an entity holds: through _data and through its state index.
EntDocs(ents) ==
    ({ents[k].data.state : k \in 1..Len(ents)}
       \cup {ents[k].states.doc : k \in 1..Len(ents)}) \ {NoDoc}
DataDocs(d) == {d[j].state : j \in 1..Len(d)} \ {NoDoc}

\* The k-th smallest reference of a set.
NthOf(S, k) == CHOOSE x \in S : Cardinality({y \in S : y < x}) = k - 1

\* The j-th record of a fetched listing gets the next unused reference when
\* it carries a state document (json() builds fresh objects on every fetch).
StatefulBefore(indexed, j) == Cardinality({i \in 1..j : indexed[i].hasState})
FreshRef(indexed, j, free) ==
    IF indexed[j].hasState THEN NthOf(free, StatefulBefore(indexed, j)) ELSE NoDoc

ToRefs(indexed, free) ==
    [j \in 1..Len(indexed) |->
        [typeId |-> indexed[j].typeId, id |-> indexed[j].id,
         deviceClass |-> indexed[j].deviceClass,
         functions |-> indexed[j].functions,
         state |-> FreshRef(indexed, j, free)]]

HeapWith(h, indexed, refs) ==
    [r \in DocIds |->
        IF \E j \in 1..Len(refs) : refs[j].state = r
        THEN indexed[CHOOSE j \in 1..Len(refs) : refs[j].state = r].values
        ELSE h[r]]

\* References are names only: after each step the documents in use are
\* renumbered in the order the snapshot and then the entities reach them,
\* and the documents nothing refers to any more are dropped.
Reach(d, ents) ==
    [j \in 1..Len(d) |-> d[j].state]
      \o [k \in 1..Len(ents) |-> ents[k].data.state]
      \o [k \in 1..Len(ents) |-> ents[k].states.doc]
FirstAt(trav, r) == CHOOSE i \in 1..Len(trav) : trav[i] = r /\ \A j \in 1..(i - 1) : trav[j] # r
Renumber(trav, r) ==
    IF r = NoDoc THEN NoDoc
    ELSE Cardinality({i \in 1..FirstAt(trav, r) :
                        trav[i] # NoDoc /\ FirstAt(trav, trav[i]) = i})

CollectData(d, ents) ==
    LET trav == Reach(d, ents)
    IN [j \in 1..Len(d) |-> [d[j] EXCEPT !.state = Renumber(trav, @)]]
CollectEntities(d, ents) ==
    LET trav == Reach(d, ents)
    IN [k \in 1..Len(ents) |->
          [ents[k] EXCEPT !.data.state = Renumber(trav, @),
                          !.states.doc = Renumber(trav, @)]]
CollectHeap(h, d, ents) ==
    LET trav == Reach(d, ents)
        live == {trav[i] : i \in 1..Len(trav)} \ {NoDoc}
    IN [n \in DocIds |->
          IF \E r \in live : Renumber(trav, r) = n
          THEN h[CHOOSE r \in live : Renumber(trav, r) = n]
          ELSE <<>>]

\* A record of the snapshot with its state document read out.
Deref(rec, h) ==
    Rec(rec.typeId, rec.id, rec.deviceClass, rec.functions, rec.state # NoDoc,
        IF rec.state = NoDoc THEN <<>> ELSE h[rec.state])
Snapshot(d, h) == [j \in 1..Len(d) |-> Deref(d[j], h)]

-----------------------------------------------------------------------------
(* HubspaceEntity: the function index and the state index.  A Python dict  *)
(* of dicts iterates classes in order of first insertion and, within a     *)
(* class, instances in order of first insertion; the index is kept as the  *)
(* flattened sequence in that order.  A state entry is the position of a   *)
(* StateValue in its document, a function entry is the descriptor.         *)

SameKey(a, b) == a.fc = b.fc /\ a.fi = b.fi

\* index[fc][fi] = entry
IndexPut(index, entry) ==
    IF \E j \in 1..Len(index) : SameKey(index[j], entry)
    THEN [j \in 1..Len(index) |-> IF SameKey(index[j], entry) THEN entry ELSE index[j]]
    ELSE IF \E j \in 1..Len(index) : index[j].fc = entry.fc
    THEN LET last == CHOOSE j \in 1..Len(index) :
                        /\ index[j].fc = entry.fc
                        /\ \A i \in (j + 1)..Len(index) : index[i].fc # entry.fc
         IN SubSeq(index, 1, last) \o <<entry>> \o SubSeq(index, last + 1, Len(index))
    ELSE Append(index, entry)

RECURSIVE StateIndex(_, _, _)
StateIndex(values, i, index) ==
    IF i > Len(values) THEN index
    ELSE StateIndex(values, i + 1,
            IF values[i].functionClass # UNSUPPORTED
            THEN IndexPut(index, [fc |-> values[i].functionClass,
                                  fi |-> values[i].functionInstance, pos |-> i])
            ELSE index)

RECURSIVE FunctionIndex(_, _, _)
FunctionIndex(fns, i, index) ==
    IF i > Len(fns) THEN index
    ELSE FunctionIndex(fns, i + 1,
            IndexPut(index, [fc |-> fns[i].functionClass,
                             fi |-> fns[i].functionInstance, fn |-> fns[i]]))

\* _states = None and _functions = None (the class attributes).
NoStates == [built |-> FALSE, doc |-> NoDoc, keys |-> <<>>]
NoFunctions == [built |-> FALSE, fns |-> <<>>]

\* HubspaceEntity.__init__
HubspaceEntity(platform, idx, d, index) ==
    [platform |-> platform, idx |-> idx, index |-> index, data |-> Lookup(d, idx),
     states |-> NoStates, functions |-> NoFunctions]

\* Mutant: an index that has been built is kept.
_set_state_once(e, doc, h) ==
    IF doc = NoDoc \/ e.states.built THEN e
    ELSE [e EXCEPT !.states =
            [built |-> TRUE, doc |-> doc, keys |-> StateIndex(h[doc], 1, <<>>)]]

\* HubspaceEntity._set_state: a falsy document leaves the index alone.
_set_state(e, doc, h) ==
    IF doc = NoDoc THEN e
    ELSE [e EXCEPT !.states =
            [built |-> TRUE, doc |-> doc, keys |-> StateIndex(h[doc], 1, <<>>)]]

\* HubspaceEntity.force_load_state_from_data
force_load_state_from_data(e, h) == _set_state(e, e.data.state, h)

\* HubspaceEntity.states: built on first use, and again while it is empty.
states(e, h) ==
    IF ~e.states.built \/ e.states.keys = <<>>
    THEN _set_state(e, e.data.state, h)
    ELSE e

\* HubspaceEntity.functions
functions(e) ==
    IF ~e.functions.built \/ e.functions.fns = <<>>
    THEN [e EXCEPT !.functions =
            [built |-> TRUE, fns |-> FunctionIndex(e.data.functions, 1, <<>>)]]
    ELSE e

-----------------------------------------------------------------------------
(* Reading a value.  A read either returns a value or raises.              *)

Ret(v) == [raised |-> FALSE, v |-> v]
Raise == [raised |-> TRUE, v |-> NoneV]

_brightness_to_hass(value) == (value * 255) \div 100

\* Python truth of a JSON value.
Truth(v) ==
    CASE v.t = "str" -> v.s # ""
      [] v.t = "num" -> v.n # 0
      [] v.t = "bool" -> v.n # 0
      [] OTHER -> FALSE

\* HubspaceStateValue.hass_value, and its override HubspaceLightStateValue.hass_value.
\* Brightness of a light: a number is scaled, None raises TypeError (the
\* catalogue carries no brightness that is a string).
hass_value(platform, sv) ==
    IF platform = "light" /\ sv.functionClass = BRIGHTNESS
    THEN IF sv.value.t = "num" THEN Ret(NumV(_brightness_to_hass(sv.value.n))) ELSE Raise
    ELSE IF sv.functionClass = AVAILABLE THEN Ret(BoolV(Truth(sv.value)))
    ELSE Ret(sv.value)

\* Mutant: the scale of the host is taken to be 0..256.
_brightness_to_hubspace_256(value) == (value * 100) \div 256

_brightness_to_hubspace(value) == (value * 100) \div 255

\* Python str() of a JSON value.
str(v) ==
    CASE v.t = "str" -> v.s
      [] v.t = "num" -> ToString(v.n)
      [] v.t = "bool" -> IF v.n # 0 THEN "True" ELSE "False"
      [] OTHER -> "None"

\* HubspaceStateValue.set_hass_value with HubspaceStateValue.set_hubspace_value,
\* and the override HubspaceLightStateValue.set_hass_value: the StateValue
\* with its raw value written; availability is written as str(value), except
\* by a light, whose override goes to set_hubspace_value directly.
set_hass_value(platform, sv, value) ==
    IF platform = "light" /\ sv.functionClass = BRIGHTNESS
    THEN [sv EXCEPT !.value = NumV(_brightness_to_hubspace(value.n))]
    ELSE IF platform # "light" /\ sv.functionClass = AVAILABLE
    THEN [sv EXCEPT !.value = StrV(str(value))]
    ELSE [sv EXCEPT !.value = value]

\* A key is a bare function class or a (class, instance) tuple.
Bare(fc) == [fc |-> fc, fi |-> None, tuple |-> FALSE]
Tuple(fc, fi) == [fc |-> fc, fi |-> fi, tuple |-> TRUE]

\* The entries of the index a key selects, in dict order.
Selected(index, key) ==
    SelectSeq(index, LAMBDA en : en.fc = key.fc /\ (key.tuple => en.fi = key.fi))

\* HubspaceEntity._get_state_value, read after `states` has run: with no
\* index at all (None) the .get raises AttributeError.
_get_state_value(e, key, default, h) ==
    LET e1 == states(e, h)
        found == Selected(e1.states.keys, key)
    IN IF ~e1.states.built THEN Raise
       ELSE IF found = <<>> THEN Ret(default)
       ELSE hass_value(e1.platform, h[e1.states.doc][found[1].pos])

\* HubspaceStateValue.hubspace_value() == "enabled"
IsEnabled(v) == v.t = "str" /\ v.s = TOGGLE_ENABLED

\* Mutant: the instance of the entry is not looked at.
preset_mode_any_instance(e, h) ==
    LET e1 == states(e, h)
        on == SelectSeq(e1.states.keys,
                LAMBDA en : /\ en.fc = TOGGLE
                            /\ IsEnabled(h[e1.states.doc][en.pos].value))
    IN IF ~e1.states.built THEN Raise
       ELSE IF on = <<>> THEN Ret(StrV("auto"))
       ELSE Ret(StrV(on[1].fi))

\* HubspaceFan.preset_mode: the first entry, in dict order, of class toggle
\* with an instance and the raw value "enabled" names the preset.
preset_mode(e, h) ==
    LET e1 == states(e, h)
        on == SelectSeq(e1.states.keys,
                LAMBDA en : /\ en.fc = TOGGLE
                            /\ en.fi # None
                            /\ IsEnabled(h[e1.states.doc][en.pos].value))
    IN IF ~e1.states.built THEN Raise
       ELSE IF on = <<>> THEN Ret(StrV("auto"))
       ELSE Ret(StrV(on[1].fi))

-----------------------------------------------------------------------------
(* HubspaceCoordinator: the classification views.                          *)

DeviceIds(d, classes) ==
    LET sel == SelectSeq(d, LAMBDA device : device.deviceClass \in classes)
    IN [j \in 1..Len(sel) |-> sel[j].id]

lights(d) == DeviceIds(d, {"light"})
fans(d) == DeviceIds(d, {"fan"})
switches(d) == DeviceIds(d, {"switch", "power-outlet"})

-----------------------------------------------------------------------------
(* Platform set-up.                                                        *)

\* Entity._index = None
NoIndex == 0
\* get_indexed_toggle_count returning None
NoCount == -1

\* utils.count_key_value(lis, key="functionClass", value=...): how many
\* descriptors of the list carry the class.
count_key_value(fns, value) ==
    Cardinality({j \in 1..Len(fns) : fns[j].functionClass = value})

get_indexed_toggle_count(lis) ==
    IF lis.deviceClass = "power-outlet"
    THEN count_key_value(lis.functions, TOGGLE)
    ELSE NoCount

\* Mutant: the outlets are numbered from 0 (range(toggle_count)).
SwitchesOf_zero_based(d, deviceId) ==
    LET toggle_count == get_indexed_toggle_count(Lookup(d, deviceId))
    IN IF toggle_count = NoCount \/ toggle_count = 1
       THEN <<HubspaceEntity("switch", deviceId, d, NoIndex)>>
       ELSE [i \in 1..toggle_count |-> HubspaceEntity("switch", deviceId, d, i - 1)]

\* The HubspaceSwitch entities switch.async_setup_entry makes of one device.
SwitchesOf(d, deviceId) ==
    LET toggle_count == get_indexed_toggle_count(Lookup(d, deviceId))
    IN IF toggle_count = NoCount \/ toggle_count = 1
       THEN <<HubspaceEntity("switch", deviceId, d, NoIndex)>>
       ELSE [i \in 1..toggle_count |-> HubspaceEntity("switch", deviceId, d, i)]

RECURSIVE SwitchEntities(_, _, _)
SwitchEntities(d, ids, k) ==
    IF k > Len(ids) THEN <<>>
    ELSE SwitchesOf(d, ids[k]) \o SwitchEntities(d, ids, k + 1)

\* light.async_setup_entry, fan.async_setup_entry, switch.async_setup_entry:
\* the entities handed to async_add_entities.
async_setup_entry(platform, d) ==
    CASE platform = "light" ->
            [j \in 1..Len(lights(d)) |-> HubspaceEntity("light", lights(d)[j], d, NoIndex)]
      [] platform = "fan" ->
            [j \in 1..Len(fans(d)) |-> HubspaceEntity("fan", fans(d)[j], d, NoIndex)]
      [] platform = "switch" -> SwitchEntities(d, switches(d), 1)

\* HubspaceEntity.unique_id and its override HubspaceSwitch.unique_id:
\* the id, and for an indexed entity the suffix "_<index>".
unique_id(e) ==
    IF e.index = NoIndex
    THEN [id |-> e.data.id, suffix |-> NoIndex]
    ELSE [id |-> e.data.id, suffix |-> e.index]

\* The key a switch reads and writes (HubspaceSwitch.is_on, turn_on, turn_off).
OutletName(i) == CASE i = 1 -> "outlet-1" [] i = 2 -> "outlet-2" [] i = 3 -> "outlet-3"
                   [] OTHER -> "outlet-n"
SwitchKey(e) ==
    IF e.index # NoIndex THEN Tuple(TOGGLE, OutletName(e.index)) ELSE Bare(TOGGLE)

\* The host writes an entity's state when it is added and after each update:
\* it reads `available` (through `states`) and then the feature properties
\* (fan and light read `functions`).  A raise ends the write.
WriteState(e, h) ==
    LET e1 == states(e, h)
    IN IF ~e1.states.built THEN e1
       ELSE IF e1.platform \in {"fan", "light"} THEN functions(e1)
       ELSE e1

\* Mutant: the notified switch keeps the index it has.
_handle_coordinator_update_keeping(e, d, h) ==
    IF e.idx \notin Ids(d) THEN e
    ELSE WriteState([e EXCEPT !.data = Lookup(d, e.idx)], h)

\* _handle_coordinator_update of HubspaceSwitch, HubspaceFan and HubspaceLight.
\* coordinator.data[self._idx] raises KeyError for a device that is gone.
_handle_coordinator_update(e, d, h) ==
    IF e.idx \notin Ids(d) THEN e
    ELSE LET e1 == [e EXCEPT !.data = Lookup(d, e.idx)]
             e2 == IF e1.platform = "switch" THEN force_load_state_from_data(e1, h) ELSE e1
         IN WriteState(e2, h)

\* DataUpdateCoordinator.async_update_listeners: the listeners run in order;
\* whether a listener that raises keeps the later ones from running depends
\* on the version of the host (abort), the same in every round.
async_update_listeners(ents, d, h, abort) ==
    [k \in 1..Len(ents) |->
        IF abort /\ \E j \in 1..(k - 1) : ents[j].idx \notin Ids(d)
        THEN ents[k]
        ELSE _handle_coordinator_update(ents[k], d, h)]

-----------------------------------------------------------------------------
(* HubspaceCoordinator._async_update_data                                  *)

\* What the listing call does: it returns, the 10 s timeout expires, or the
\* transport raises.
FetchOutcomes == {"ok", "timeout", "transport"}

\* `except any as err`: `any` is the builtin function, not an exception
\* class, so matching an exception against it raises TypeError and the
\* handler body (raise UpdateFailed) never runs.
except_any(err) == "TypeError"

\* Mutant: the handler swallows the error and returns an empty mapping.
_async_update_data_swallowing(outcome, listing) ==
    IF outcome = "ok"
    THEN [raised |-> "none", value |-> pull_coordinator_data(listing)]
    ELSE [raised |-> "none", value |-> <<>>]

\* _async_update_data: the indexed listing, or the exception it leaves with.
_async_update_data(outcome, listing) ==
    IF outcome = "ok"
    THEN [raised |-> "none", value |-> pull_coordinator_data(listing)]
    ELSE [raised |-> except_any(outcome), value |-> <<>>]

\* self.data = await self._async_update_data(), then the listeners.
Install(indexed, abort) ==
    LET refs == ToRefs(indexed, DocIds \ EntDocs(entities))
        h1 == HeapWith(heap, indexed, refs)
        ents1 == async_update_listeners(entities, refs, h1, abort)
    IN /\ data' = CollectData(refs, ents1)
       /\ hasData' = TRUE
       /\ entities' = CollectEntities(refs, ents1)
       /\ heap' = CollectHeap(h1, refs, ents1)

\* A refresh that raised: coordinator.data stays, and the listeners run when
\* the refresh before it had succeeded.
Retain(abort) ==
    LET ents1 == IF last_update_success /\ hasData
                 THEN async_update_listeners(entities, data, heap, abort)
                 ELSE entities
    IN /\ data' = CollectData(data, ents1)
       /\ hasData' = hasData
       /\ entities' = CollectEntities(data, ents1)
       /\ heap' = CollectHeap(heap, data, ents1)

\* The failed fetches in a row that are told apart.
MaxFailures == 3

\* Mutant: a fetch that follows a failed one is not looked at; the failure
\* stays.
Refresh_latching(outcome, abort) ==
    LET result == IF last_update_success THEN _async_update_data(outcome, cloud)
                  ELSE [raised |-> last_exception, value |-> <<>>]
    IN /\ fetched' = outcome
       /\ failures' = IF result.raised = "none" THEN failures
                      ELSE IF failures < MaxFailures THEN failures + 1 ELSE MaxFailures
       /\ last_exception' = result.raised
       /\ last_update_success' = (result.raised = "none")
       /\ IF result.raised = "none" THEN Install(result.value, abort) ELSE Retain(abort)

\* DataUpdateCoordinator._async_refresh around _async_update_data.
Refresh(outcome, abort) ==
    LET result == _async_update_data(outcome, cloud)
    IN /\ fetched' = outcome
       /\ failures' = IF result.raised = "none" THEN failures
                      ELSE IF failures < MaxFailures THEN failures + 1 ELSE MaxFailures
       /\ last_exception' = result.raised
       /\ last_update_success' = (result.raised = "none")
       /\ IF result.raised = "none" THEN Install(result.value, abort) ELSE Retain(abort)

-----------------------------------------------------------------------------
(* Actions.                                                                *)

\* No codec is at work.
NoCodec == [in |-> NoneV, out |-> NoneV, back |-> NoneV, step |-> "off"]
\* The methods class HubspaceClient defines.
ClientMethods ==
    {"__init__", "authenticate", "get_utc_time", "get_code_verifier_and_challenge",
     "get_auth_session", "get_refresh_token", "get_auth_token", "get_account_id",
     "get_devices", "pull_coordinator_data"}

\* HubspaceClient as constructed; the clock is not followed.
NoClient == [methods |-> ClientMethods, _last_token |-> NoneV, _last_token_time |-> NoneV]
\* The host has called nothing.
NoCall == [op |-> "none", phase |-> "done"]
\* Nothing has reached the vendor.
NoSent == <<>>
\* Codec, client, call and wire at rest.
NoTokens == <<>>
AuxIdle ==
    /\ client = NoClient
    /\ call = NoCall
    /\ sent = NoSent
    /\ clock = 0
    /\ tokens = NoTokens

Init ==
    /\ cloud \in Listings
    /\ setup = "start"
    /\ data = <<>>
    /\ hasData = FALSE
    /\ heap = [r \in DocIds |-> <<>>]
    /\ entities = <<>>
    /\ loaded = {}
    /\ pollState = "idle"
    /\ fetched = "none"
    /\ last_update_success = TRUE
    /\ last_exception = "none"
    /\ hostAborts \in BOOLEAN
    /\ failures = 0
    /\ codec = NoCodec
    /\ AuxIdle

\* The devices change at the vendor (another app, the device itself).
VendorChange ==
    /\ cloud' \in Listings \ {cloud}
    /\ UNCHANGED <<auxVars, hostAborts, failures, setup, data, hasData, heap, entities,
                   loaded, pollState,
                   fetched, last_update_success, last_exception>>

\* __init__.async_setup_entry up to the registration of the coordinator.
Authenticate ==
    /\ setup = "start"
    /\ \E authed \in BOOLEAN :
          setup' = IF authed THEN "registered" ELSE "failed"
    /\ failures' = 0
    /\ UNCHANGED <<auxVars, hostAborts, cloud, data, hasData, heap, entities, loaded, pollState,
                   fetched, last_update_success, last_exception>>

\* coordinator.async_config_entry_first_refresh(): a failure ends set-up
\* (ConfigEntryNotReady), and the host tries the set-up again later.
FirstRefresh ==
    /\ setup = "registered"
    /\ \E outcome \in FetchOutcomes : Refresh(outcome, FALSE)
    /\ setup' = IF last_update_success' THEN "ready" ELSE "start"
    /\ UNCHANGED <<auxVars, hostAborts, cloud, loaded, pollState>>

\* The platform modules of the integration.
Platforms == {"light", "fan", "switch"}

\* Mutant: the platforms are forwarded to as soon as the coordinator is
\* registered, before the first refresh.
SetupPlatform_unrefreshed(platform) ==
    /\ setup \in {"registered", "ready"}
    /\ platform \notin loaded
    /\ loaded' = loaded \cup {platform}
    /\ LET made == async_setup_entry(platform, data)
       IN entities' = entities \o [j \in 1..Len(made) |-> WriteState(made[j], heap)]
    /\ UNCHANGED <<auxVars, hostAborts, failures, cloud, setup, data, hasData, heap, pollState,
                   fetched, last_update_success, last_exception>>

\* A platform's async_setup_entry and the host adding its entities.
SetupPlatform(platform) ==
    /\ setup = "ready"
    /\ platform \notin loaded
    /\ loaded' = loaded \cup {platform}
    /\ LET made == async_setup_entry(platform, data)
       IN entities' = entities \o [j \in 1..Len(made) |-> WriteState(made[j], heap)]
    /\ UNCHANGED <<auxVars, hostAborts, failures, cloud, setup, data, hasData, heap, pollState,
                   fetched, last_update_success, last_exception>>

\* The 30 s timer fires.  It is armed when the first entity is added, so
\* the platforms' set-up has run by its first tick.
PollStartWhen(forwarded) ==
    /\ setup = "ready"
    /\ loaded = forwarded
    /\ entities # <<>>
    /\ pollState = "idle"
    /\ pollState' = "fetching"
    /\ failures' = IF last_update_success THEN 0 ELSE failures
    /\ UNCHANGED <<auxVars, hostAborts, cloud, setup, data, hasData, heap, entities, loaded,
                   fetched, last_update_success, last_exception>>

\* The timer with every platform module set up.
PollStart == PollStartWhen(Platforms)

\* The fetch returns: the snapshot is replaced and the listeners run.
PollSucceed ==
    /\ pollState = "fetching"
    /\ Refresh("ok", hostAborts)
    /\ pollState' = "idle"
    /\ UNCHANGED <<auxVars, hostAborts, cloud, setup, loaded>>

\* The fetch times out or the transport raises.
PollFail ==
    /\ pollState = "fetching"
    /\ \E outcome \in FetchOutcomes \ {"ok"} : Refresh(outcome, hostAborts)
    /\ pollState' = "idle"
    /\ UNCHANGED <<auxVars, hostAborts, cloud, setup, loaded>>

Next ==
    \/ VendorChange
    \/ Authenticate
    \/ FirstRefresh
    \/ \E platform \in Platforms : SetupPlatform(platform)
    \/ PollStart
    \/ PollSucceed
    \/ PollFail

Spec == Init /\ [][Next]_vars

-----------------------------------------------------------------------------
(* __init__.async_setup_entry as the integration ships it.                 *)

\* PLATFORMS: list[Platform] = [Platform.FAN]
PLATFORMS == {"fan"}

\* hass.config_entries.async_forward_entry_setups(entry, PLATFORMS)
ForwardEntrySetups == \E platform \in PLATFORMS : SetupPlatform(platform)

\* The timer once the forwarded platforms are set up.
PollStartForwarded == PollStartWhen(PLATFORMS)

\* async_setup_entry has returned True and the forwarded platforms are set up.
SetupDone == setup = "ready" /\ loaded = PLATFORMS

NextSetup ==
    \/ VendorChange
    \/ Authenticate
    \/ FirstRefresh
    \/ ForwardEntrySetups
    \/ PollStartForwarded
    \/ PollSucceed
    \/ PollFail

SpecSetup == Init /\ [][NextSetup]_vars

-----------------------------------------------------------------------------
(* The fan-speed codec: HubspaceFanFunction and HubspaceFan.percentage.    *)

FanSpeedLabels ==
    {"fan-speed-000", "fan-speed-025", "fan-speed-050", "fan-speed-075", "fan-speed-100"}

\* int(value[-3:]) on the labels of the vendor.
IntOfLast3(value) ==
    CASE value = "fan-speed-000" -> 0
      [] value = "fan-speed-025" -> 25
      [] value = "fan-speed-050" -> 50
      [] value = "fan-speed-075" -> 75
      [] value = "fan-speed-100" -> 100

\* HubspaceFanFunction._value_key for the class fan-speed.
_value_key(value) == IntOfLast3(value)

\* list.sort(key=self._value_key): a stable sort.
RECURSIVE SortByKey(_)
SortByKey(names) ==
    IF names = <<>> THEN <<>>
    ELSE LET rest == SortByKey(SubSeq(names, 1, Len(names) - 1))
             x == names[Len(names)]
             before == SelectSeq(rest, LAMBDA y : _value_key(y) <= _value_key(x))
             after == SelectSeq(rest, LAMBDA y : _value_key(y) > _value_key(x))
         IN before \o <<x>> \o after

\* HubspaceFunction.values of a fan-speed descriptor.
values(names) == SortByKey(names)

\* Mutant: the off label stays in the list.
_fan_speed_values_with_off(fan_speed_values) == fan_speed_values

\* HubspaceFan._fan_speed_values: the sorted labels without the first; None
\* and the empty list are both <<>> (each is falsy where it is used).
_fan_speed_values(fan_speed_values) ==
    IF fan_speed_values # <<>> THEN Tail(fan_speed_values) ELSE <<>>

\* homeassistant.util.percentage.ordered_list_item_to_percentage:
\*   if item not in ordered_list: raise ValueError
\*   return (ordered_list.index(item) + 1) * 100 // len(ordered_list)
ordered_list_item_to_percentage(ordered_list, item) ==
    IF item.t # "str" \/ \A i \in 1..Len(ordered_list) : ordered_list[i] # item.s
    THEN Raise
    ELSE LET list_position == CHOOSE i \in 1..Len(ordered_list) : ordered_list[i] = item.s
         IN Ret(NumV((list_position * 100) \div Len(ordered_list)))

\* Mutant: a percentage on a boundary goes to the speed above it.
percentage_to_ordered_list_item_above(ordered_list, pct) ==
    LET list_len == Len(ordered_list)
        fits == {p \in 1..list_len : pct < (p * 100) \div list_len}
    IN IF list_len = 0 THEN Raise
       ELSE IF fits = {} THEN Ret(StrV(ordered_list[list_len]))
       ELSE Ret(StrV(ordered_list[CHOOSE p \in fits : \A q \in fits : p <= q]))

\* homeassistant.util.percentage.percentage_to_ordered_list_item:
\*   if not (list_len := len(ordered_list)): raise ValueError
\*   the first item whose upper bound (position * 100) // list_len is not
\*   below the percentage, else the last item.
\* len(None) raises as well.
percentage_to_ordered_list_item(ordered_list, pct) ==
    LET list_len == Len(ordered_list)
        fits == {p \in 1..list_len : pct <= (p * 100) \div list_len}
    IN IF list_len = 0 THEN Raise
       ELSE IF fits = {} THEN Ret(StrV(ordered_list[list_len]))
       ELSE Ret(StrV(ordered_list[CHOOSE p \in fits : \A q \in fits : p <= q]))

\* HubspaceFan.percentage of a fan with the given fan-speed descriptor and
\* the given current fan-speed state.
percentage(names, speed) ==
    LET speeds == _fan_speed_values(values(names))
    IN IF speeds # <<>>
       THEN ordered_list_item_to_percentage(speeds, speed)
       ELSE Ret(NoneV)

mainVars == <<cloud, setup, data, hasData, heap, entities, loaded, pollState,
              fetched, last_update_success, last_exception, hostAborts, failures>>

\* The integration is not set up.
MainIdle ==
    /\ hostAborts = TRUE
    /\ failures = 0
    /\ cloud = <<>>
    /\ setup = "start"
    /\ data = <<>>
    /\ hasData = FALSE
    /\ heap = [r \in DocIds |-> <<>>]
    /\ entities = <<>>
    /\ loaded = {}
    /\ pollState = "idle"
    /\ fetched = "none"
    /\ last_update_success = TRUE
    /\ last_exception = "none"

\* The value lists a fan-speed descriptor may declare: the labels of any
\* non-empty choice among the vendor's, in any order.
FanDescriptors ==
    UNION {{f \in [1..n -> FanSpeedLabels] : \A i, j \in 1..n : f[i] = f[j] => i = j}
              : n \in 1..Cardinality(FanSpeedLabels)}

InitFan ==
    /\ MainIdle
    /\ AuxIdle
    /\ \E names \in FanDescriptors, speed \in FanSpeedLabels :
          codec = [in |-> [names |-> names, speed |-> StrV(speed)], speeds |-> <<>>,
                   out |-> Ret(NoneV), back |-> Ret(NoneV), step |-> "in"]

\* The host reads HubspaceFan.percentage; speeds is the list
\* self._fan_speed_values it was read against.
ReadPercentage ==
    /\ codec.step = "in"
    /\ codec' = [codec EXCEPT !.speeds = _fan_speed_values(values(codec.in.names)),
                              !.out = percentage(codec.in.names, codec.in.speed),
                              !.step = "out"]
    /\ UNCHANGED <<mainVars, client, call, sent, clock, tokens>>

\* The host hands the percentage it read to HubspaceFan.set_percentage: the
\* label that is written as the fan speed.
SetPercentage ==
    /\ codec.step = "out"
    /\ ~codec.out.raised
    /\ codec.out.v.t = "num"
    /\ codec' = [codec EXCEPT !.back = percentage_to_ordered_list_item(
                                          _fan_speed_values(values(codec.in.names)),
                                          codec.out.v.n),
                              !.step = "back"]
    /\ UNCHANGED <<mainVars, client, call, sent, clock, tokens>>

NextFan == ReadPercentage \/ SetPercentage

SpecFan == InitFan /\ [][NextFan]_vars

-----------------------------------------------------------------------------
(* The brightness codec of HubspaceLightStateValue.                        *)

\* The raw brightness is a percentage.
MaxRaw == 100

InitBrightness ==
    /\ MainIdle
    /\ AuxIdle
    /\ \E raw \in 0..MaxRaw :
          codec = [in |-> SV(BRIGHTNESS, None, NumV(raw)),
                   out |-> Ret(NoneV), back |-> SV(BRIGHTNESS, None, NoneV), step |-> "in"]

\* HubspaceLight.brightness reads the value: hass_value decodes it.
DecodeBrightness ==
    /\ codec.step = "in"
    /\ codec' = [codec EXCEPT !.out = hass_value("light", codec.in), !.step = "out"]
    /\ UNCHANGED <<mainVars, client, call, sent, clock, tokens>>

\* The decoded value is written back: set_hass_value encodes it.
EncodeBrightness ==
    /\ codec.step = "out"
    /\ ~codec.out.raised
    /\ codec' = [codec EXCEPT !.back = set_hass_value("light", codec.in, codec.out.v),
                              !.step = "back"]
    /\ UNCHANGED <<mainVars, client, call, sent, clock, tokens>>

NextBrightness == DecodeBrightness \/ EncodeBrightness

SpecBrightness == InitBrightness /\ [][NextBrightness]_vars

-----------------------------------------------------------------------------
(* The colour-temperature bounds of HubspaceLight.                         *)

\* Labels of a color-temperature descriptor; 6500K and 6510K convert to the
\* same number of mireds.
KelvinLabels == {"2200K", "2700K", "5000K", "6500K", "6510K"}

\* float(value[:-1]) on the labels, as a whole number of kelvins.
KelvinOf(value) ==
    CASE value = "2200K" -> 2200
      [] value = "2700K" -> 2700
      [] value = "5000K" -> 5000
      [] value = "6500K" -> 6500
      [] value = "6510K" -> 6510

\* homeassistant.util.color.color_temperature_kelvin_to_mired:
\*   math.floor(1000000 / kelvin_temperature)
color_temperature_kelvin_to_mired(kelvin_temperature) == 1000000 \div kelvin_temperature

\* light._color_temp_to_hass
_color_temp_to_hass(value) == color_temperature_kelvin_to_mired(KelvinOf(value))

\* HubspaceFunction.values of a color-temperature descriptor of a light:
\* list.sort(key=HubspaceLightFunction._value_key), a stable sort by mireds.
RECURSIVE ColorTemperatureValues(_)
ColorTemperatureValues(names) ==
    IF names = <<>> THEN <<>>
    ELSE LET rest == ColorTemperatureValues(SubSeq(names, 1, Len(names) - 1))
             x == names[Len(names)]
             before == SelectSeq(rest, LAMBDA y :
                          _color_temp_to_hass(y) <= _color_temp_to_hass(x))
             after == SelectSeq(rest, LAMBDA y :
                          _color_temp_to_hass(y) > _color_temp_to_hass(x))
         IN before \o <<x>> \o after

\* LightEntity.min_mireds of the host, which both bounds fall back to.
DefaultMinMireds == 153

\* HubspaceLight.min_mireds
min_mireds(names) ==
    LET hubspace_values == ColorTemperatureValues(names)
    IN IF hubspace_values = <<>> THEN DefaultMinMireds
       ELSE _color_temp_to_hass(hubspace_values[1])

\* Mutant: the upper bound is read off the first label as well.
max_mireds_of_first(names) ==
    LET hubspace_values == ColorTemperatureValues(names)
    IN IF hubspace_values = <<>> THEN DefaultMinMireds
       ELSE _color_temp_to_hass(hubspace_values[1])

\* HubspaceLight.max_mireds
max_mireds(names) ==
    LET hubspace_values == ColorTemperatureValues(names)
    IN IF hubspace_values = <<>> THEN DefaultMinMireds
       ELSE _color_temp_to_hass(hubspace_values[Len(hubspace_values)])

\* The value lists a color-temperature descriptor may declare: any choice
\* among the labels, in any order.
ColorTemperatureDescriptors ==
    UNION {{f \in [1..n -> KelvinLabels] : \A i, j \in 1..n : f[i] = f[j] => i = j}
              : n \in 0..Cardinality(KelvinLabels)}

InitColorTemp ==
    /\ MainIdle
    /\ AuxIdle
    /\ \E names \in ColorTemperatureDescriptors :
          codec = [in |-> names, values |-> <<>>, min |-> 0, max |-> 0, step |-> "in"]

\* The host reads min_mireds and max_mireds of the light.
ReadMireds ==
    /\ codec.step = "in"
    /\ codec' = [codec EXCEPT !.values = ColorTemperatureValues(codec.in),
                              !.min = min_mireds(codec.in),
                              !.max = max_mireds(codec.in),
                              !.step = "out"]
    /\ UNCHANGED <<mainVars, client, call, sent, clock, tokens>>

NextColorTemp == ReadMireds

SpecColorTemp == InitColorTemp /\ [][NextColorTemp]_vars

-----------------------------------------------------------------------------
(* What the host reads from an entity.                                     *)

\* Python's order of the value names the descriptors of the catalogue carry.
NameOrder(name) ==
    CASE name = "disabled" -> 1
      [] name = "enabled" -> 2
      [] name = "off" -> 3
      [] name = "on" -> 4
      [] OTHER -> 5

\* list.sort(key=...) by a key given as a table: a stable sort.
RECURSIVE SortByOrder(_)
SortByOrder(names) ==
    IF names = <<>> THEN <<>>
    ELSE LET rest == SortByOrder(SubSeq(names, 1, Len(names) - 1))
             x == names[Len(names)]
             before == SelectSeq(rest, LAMBDA y : NameOrder(y) <= NameOrder(x))
             after == SelectSeq(rest, LAMBDA y : NameOrder(y) > NameOrder(x))
         IN before \o <<x>> \o after

\* HubspaceFunction.values of a descriptor of an entity: HubspaceFanFunction
\* sorts fan speeds by their number, every other list is sorted by name.
FunctionValues(platform, fn) ==
    IF platform = "fan" /\ fn.functionClass = FAN_SPEED
    THEN values(fn.values)
    ELSE SortByOrder(fn.values)

\* A list that was returned, and a default that was returned in its place.
RetList(list) == [raised |-> FALSE, found |-> TRUE, list |-> list, v |-> NoneV]
RetDefault(default) == [raised |-> FALSE, found |-> FALSE, list |-> <<>>, v |-> default]

\* HubspaceEntity._get_function_values, read after `functions` has run.
_get_function_values(e, key, default) ==
    LET e1 == functions(e)
        found == Selected(e1.functions.fns, key)
    IN IF found = <<>> THEN RetDefault(default)
       ELSE RetList(FunctionValues(e1.platform, found[1].fn))

\* Mutant: any value that is set counts as on.
is_on_truthy(e, h) ==
    LET key == IF e.platform = "switch" THEN SwitchKey(e) ELSE Bare(POWER)
        power == _get_state_value(e, key, StrV(STATE_OFF), h)
    IN IF power.raised THEN Raise ELSE Ret(BoolV(Truth(power.v)))

\* HubspaceLight.is_on and HubspaceFan.is_on:
\*   _get_state_value(FunctionClass.POWER, STATE_OFF) == STATE_ON
\* HubspaceSwitch.is_on: the same over the key of the switch.
is_on(e, h) ==
    LET key == IF e.platform = "switch" THEN SwitchKey(e) ELSE Bare(POWER)
        power == _get_state_value(e, key, StrV(STATE_OFF), h)
    IN IF power.raised THEN Raise ELSE Ret(BoolV(power.v = StrV(STATE_ON)))

\* HubspaceLight.brightness
brightness(e, h) == _get_state_value(e, Bare(BRIGHTNESS), NoneV, h)

\* Mutant: an entity with no `available` value is unavailable.
available_unless_told(e, h) == _get_state_value(e, Bare(AVAILABLE), BoolV(FALSE), h)

\* HubspaceEntity.available
available(e, h) == _get_state_value(e, Bare(AVAILABLE), BoolV(TRUE), h)

\* A light as the vendor may list it: with or without a power value, a
\* brightness value and an availability value, with or without descriptors.
Absent == "absent"
LightWith(power, hasLevel, level, avail, fns) ==
    Rec("metadevice.device", "d1", "light", fns, TRUE,
        (IF power = Absent THEN <<>> ELSE <<SV(POWER, None, StrV(power))>>)
          \o (IF hasLevel THEN <<SV(BRIGHTNESS, None, NumV(level))>> ELSE <<>>)
          \o (IF avail = Absent THEN <<>> ELSE <<SV(AVAILABLE, None, BoolV(avail = "yes"))>>))

BrightnessLevels == {0, 25, 50, 75, 100}

ReadRecords ==
    {LightA, LightB, LightNoState, FanA, FanB, Outlet2A, Outlet2B, Outlet1, Outlet0, SwitchA}
      \cup {LightWith(power, hasLevel, level, avail, fns) :
               power \in {Absent, STATE_ON, STATE_OFF},
               hasLevel \in BOOLEAN,
               level \in BrightnessLevels,
               avail \in {Absent, "yes", "no"},
               fns \in {<<>>, <<PowerFn, BrightnessFn>>}}

\* The keys and the defaults the reads are made with.
ReadKeys ==
    {Bare(fc) : fc \in {POWER, BRIGHTNESS, FAN_SPEED, TOGGLE, AVAILABLE, COLOR_TEMPERATURE}}
      \cup {Tuple(TOGGLE, "outlet-1"), Tuple(TOGGLE, "eco"), Tuple(POWER, "primary")}
ReadDefaults == {NoneV, StrV("fallback")}

\* The entities every platform module makes of a snapshot.
AllEntities(d) ==
    async_setup_entry("light", d) \o async_setup_entry("fan", d)
      \o async_setup_entry("switch", d)

\* The integration is set up over a listing of one device; each entity is as
\* its constructor left it, or as the host's first state write left it.
InitRead ==
    /\ \E rec \in ReadRecords, written \in BOOLEAN :
          LET refs == ToRefs(pull_coordinator_data(<<rec>>), DocIds)
              h == HeapWith([r \in DocIds |-> <<>>], pull_coordinator_data(<<rec>>), refs)
              made == AllEntities(refs)
          IN /\ cloud = <<rec>>
             /\ data = refs
             /\ heap = h
             /\ entities = [j \in 1..Len(made) |->
                              IF written THEN WriteState(made[j], h) ELSE made[j]]
    /\ setup = "ready"
    /\ hasData = TRUE
    /\ loaded = Platforms
    /\ pollState = "idle"
    /\ fetched = "ok"
    /\ last_update_success = TRUE
    /\ last_exception = "none"
    /\ hostAborts = TRUE
    /\ failures = 0
    /\ codec = NoCodec
    /\ AuxIdle

\* A read returns to the host; the index the read built stays with the entity.
Returned(op, k, key, default, ret, e1) ==
    /\ call' = [op |-> op, phase |-> "done", k |-> k, key |-> key, default |-> default,
                ret |-> ret]
    /\ entities' = [entities EXCEPT ![k] = e1]
    /\ UNCHANGED <<mainVarsButEntities, codec, client, sent, clock, tokens>>

\* The host calls _get_state_value through a property.
GetState ==
    \E k \in 1..Len(entities), key \in ReadKeys, default \in ReadDefaults :
       Returned("get_state", k, key, default,
                _get_state_value(entities[k], key, default, heap), states(entities[k], heap))

GetFunctionValues ==
    \E k \in 1..Len(entities), key \in ReadKeys, default \in ReadDefaults :
       Returned("get_function_values", k, key, default,
                _get_function_values(entities[k], key, default), functions(entities[k]))

ReadIsOn ==
    \E k \in 1..Len(entities) :
       Returned("is_on", k, Bare(POWER), StrV(STATE_OFF),
                is_on(entities[k], heap), states(entities[k], heap))

ReadBrightness ==
    \E k \in 1..Len(entities) :
       /\ entities[k].platform = "light"
       /\ Returned("brightness", k, Bare(BRIGHTNESS), NoneV,
                   brightness(entities[k], heap), states(entities[k], heap))

ReadAvailable ==
    \E k \in 1..Len(entities) :
       Returned("available", k, Bare(AVAILABLE), BoolV(TRUE),
                available(entities[k], heap), states(entities[k], heap))

NextRead == GetState \/ GetFunctionValues \/ ReadIsOn \/ ReadBrightness \/ ReadAvailable

SpecRead == InitRead /\ [][NextRead]_vars

-----------------------------------------------------------------------------
(* Commands: the optimistic write and the push.                            *)

\* Mutant: the command writes nothing before it pushes.
_set_state_value_noop(e, key, value, h) ==
    LET e1 == states(e, h)
    IN [raised |-> ~e1.states.built, e |-> e1, h |-> h]

\* Mutant: the instance of a tuple key is not looked at.
_set_state_value_every_instance(e, key, value, h) ==
    LET e1 == states(e, h)
        hit == {e1.states.keys[j].pos : j \in {i \in 1..Len(e1.states.keys) :
                   e1.states.keys[i].fc = key.fc}}
    IN IF ~e1.states.built THEN [raised |-> TRUE, e |-> e1, h |-> h]
       ELSE [raised |-> FALSE, e |-> e1,
             h |-> [h EXCEPT ![e1.states.doc] =
                      [i \in 1..Len(@) |->
                          IF i \in hit THEN set_hass_value(e1.platform, @[i], value)
                          ELSE @[i]]]]

\* HubspaceEntity._set_state_value: set_hass_value on the entry a tuple key
\* names, or on every entry of a bare class.  The entries are the value
\* dicts of the document the index was built from, so the document changes.
_set_state_value(e, key, value, h) ==
    LET e1 == states(e, h)
        hit == {e1.states.keys[j].pos : j \in {i \in 1..Len(e1.states.keys) :
                   /\ e1.states.keys[i].fc = key.fc
                   /\ key.tuple => e1.states.keys[i].fi = key.fi}}
    IN IF ~e1.states.built THEN [raised |-> TRUE, e |-> e1, h |-> h]
       ELSE [raised |-> FALSE, e |-> e1,
             h |-> [h EXCEPT ![e1.states.doc] =
                      [i \in 1..Len(@) |->
                          IF i \in hit THEN set_hass_value(e1.platform, @[i], value)
                          ELSE @[i]]]]

\* A command of the host: its name and, for a light, the brightness it may
\* carry (ATTR_BRIGHTNESS in kwargs).
Cmd(name, hasBrightness, level) ==
    [name |-> name, hasBrightness |-> hasBrightness, brightness |-> level]
Commands(e) ==
    IF e.platform = "light"
    THEN {Cmd("turn_on", FALSE, 0), Cmd("turn_on", TRUE, 128), Cmd("turn_on", TRUE, 255),
          Cmd("turn_off", FALSE, 0)}
    ELSE {Cmd("turn_on", FALSE, 0), Cmd("turn_off", FALSE, 0)}

\* The _set_state_value calls of turn_on and turn_off, in order:
\* HubspaceLight, HubspaceFan (without percentage and preset) and HubspaceSwitch.
Writes(e, c) ==
    LET key == IF e.platform = "switch" THEN SwitchKey(e) ELSE Bare(POWER)
        value == IF c.name = "turn_on" THEN StrV(STATE_ON) ELSE StrV(STATE_OFF)
    IN <<[key |-> key, value |-> value]>>
         \o (IF e.platform = "light" /\ c.name = "turn_on" /\ c.hasBrightness
             THEN <<[key |-> Bare(BRIGHTNESS), value |-> NumV(c.brightness)]>>
             ELSE <<>>)

\* Whether the method ends with self._push_state(): turn_on and turn_off of
\* every platform do.
Pushes(e, c) == c.name \in {"turn_on", "turn_off"}

RECURSIVE ApplyWrites(_, _, _, _)
ApplyWrites(e, writes, i, h) ==
    IF i > Len(writes) THEN [raised |-> FALSE, e |-> e, h |-> h]
    ELSE LET r == _set_state_value(e, writes[i].key, writes[i].value, h)
         IN IF r.raised THEN r ELSE ApplyWrites(r.e, writes, i + 1, r.h)

\* const.SETTABLE_FUNCTION_CLASSES
SETTABLE_FUNCTION_CLASSES ==
    {POWER, BRIGHTNESS, COLOR_TEMPERATURE, FAN_SPEED, "fan-reverse", TOGGLE}

\* The batch of a state update: one entry per StateValue of the index whose
\* value is set and whose class is settable, with functionInstance where
\* the StateValue has one.
PushBatch(e, h) ==
    LET all == [j \in 1..Len(e.states.keys) |-> h[e.states.doc][e.states.keys[j].pos]]
    IN SelectSeq(all, LAMBDA sv : sv.value # NoneV
                                   /\ sv.functionClass \in SETTABLE_FUNCTION_CLASSES)

\* How a state update ends at a client that makes one: the vendor answers
\* with the state of the device, or the transport raises.
PushOutcomes == {"ok", "error"}

\* HubspaceClient.push_state where the client has it: the batch goes out;
\* the response is the state the vendor then holds, in full or only the
\* values of the batch.
HubspaceClient_push_state(metadeviceId, e, h, outcome, full) ==
    LET batch == PushBatch(e, h)
    IN [raised |-> IF outcome = "ok" THEN "none" ELSE "error",
        sent |-> <<[metadeviceId |-> metadeviceId, values |-> batch]>>,
        response |-> IF full \/ batch = <<>> THEN h[e.states.doc] ELSE batch]

\* self._coordinator.hubspace_client.push_state(metadeviceId=..., states=...):
\* looking up a method the client does not have raises AttributeError
\* before anything is sent.
push_state(c, metadeviceId, e, h, outcome, full) ==
    IF "push_state" \notin c.methods
    THEN [raised |-> "AttributeError", sent |-> <<>>, response |-> <<>>]
    ELSE HubspaceClient_push_state(metadeviceId, e, h, outcome, full)

\* The state updates followed on the wire.
MaxSent == 2

\* The host calls turn_on or turn_off of an entity: the optimistic writes.
Command ==
    /\ call.phase = "done"
    /\ Len(sent) < MaxSent
    /\ \E k \in 1..Len(entities) :
          \E c \in Commands(entities[k]) :
             LET e == entities[k]
                 r == ApplyWrites(e, Writes(e, c), 1, heap)
             IN /\ entities' = [entities EXCEPT ![k] = r.e]
                /\ heap' = r.h
                /\ call' = [op |-> c.name, k |-> k, cmd |-> c,
                            before |-> IF r.e.states.built THEN heap[r.e.states.doc] ELSE <<>>,
                            phase |-> IF ~r.raised /\ Pushes(e, c) THEN "push" ELSE "done",
                            ret |-> IF r.raised THEN "AttributeError"
                                    ELSE IF Pushes(e, c) THEN "none" ELSE "ok",
                            response |-> <<>>]
    /\ UNCHANGED <<mainVarsButEntitiesAndHeap, codec, client, sent, clock, tokens>>

\* HubspaceEntity._push_state: the state update, then _set_state on its
\* response and schedule_update_ha_state (the host writes the state).  An
\* exception of the call leaves the method at once.
PushState ==
    /\ call.phase = "push"
    /\ \E outcome \in PushOutcomes, full \in BOOLEAN :
          LET e == entities[call.k]
              r == push_state(client, e.idx, e, heap, outcome, full)
              ref == NthOf(DocIds \ (EntDocs(entities) \cup DataDocs(data)), 1)
              h1 == [heap EXCEPT ![ref] = r.response]
              e1 == WriteState(_set_state(e, ref, h1), h1)
              ents1 == [entities EXCEPT ![call.k] = e1]
          IN /\ sent' = sent \o r.sent
             /\ IF r.raised # "none"
                THEN /\ call' = [call EXCEPT !.phase = "done", !.ret = r.raised]
                     /\ UNCHANGED <<data, entities, heap>>
                ELSE /\ call' = [call EXCEPT !.phase = "done", !.ret = "ok",
                                             !.response = r.response]
                     /\ data' = CollectData(data, ents1)
                     /\ entities' = CollectEntities(data, ents1)
                     /\ heap' = CollectHeap(h1, data, ents1)
    /\ UNCHANGED <<cloud, setup, hasData, loaded, pollState, fetched,
                   last_update_success, last_exception, codec, client, hostAborts, failures,
                   clock, tokens>>

NextCmd == Command \/ PushState

\* The integration as it is, set up over a listing of one device.
InitCmd == InitRead

SpecCmd == InitCmd /\ [][NextCmd]_vars

-----------------------------------------------------------------------------
(* _set_state_value on its own: every key, on every entity.                *)

\* The values a write carries, by the class of its key.
WriteValues(key) ==
    CASE key.fc = BRIGHTNESS -> {NumV(128), NumV(255)}
      [] key.fc = AVAILABLE -> {BoolV(TRUE), BoolV(FALSE)}
      [] key.fc = FAN_SPEED -> {StrV("fan-speed-050")}
      [] key.fc = COLOR_TEMPERATURE -> {StrV("3000K")}
      [] OTHER -> {StrV(STATE_ON), StrV(STATE_OFF)}

\* A method of the entity calls self._set_state_value(key, value).
SetStateValue ==
    \E k \in 1..Len(entities), key \in ReadKeys :
       \E value \in WriteValues(key) :
          LET r == _set_state_value(entities[k], key, value, heap)
          IN /\ entities' = [entities EXCEPT ![k] = r.e]
             /\ heap' = r.h
             /\ call' = [op |-> "_set_state_value", phase |-> "done", k |-> k,
                         key |-> key, value |-> value, raised |-> r.raised]
             /\ UNCHANGED <<mainVarsButEntitiesAndHeap, codec, client, sent, clock, tokens>>

NextWrite == SetStateValue

SpecWrite == InitRead /\ [][NextWrite]_vars

\* The same with a client that does have push_state.
InitPush ==
    /\ \E rec \in ReadRecords, written \in BOOLEAN :
          LET refs == ToRefs(pull_coordinator_data(<<rec>>), DocIds)
              h == HeapWith([r \in DocIds |-> <<>>], pull_coordinator_data(<<rec>>), refs)
              made == AllEntities(refs)
          IN /\ cloud = <<rec>>
             /\ data = refs
             /\ heap = h
             /\ entities = [j \in 1..Len(made) |->
                              IF written THEN WriteState(made[j], h) ELSE made[j]]
    /\ hostAborts = TRUE
    /\ failures = 0
    /\ setup = "ready"
    /\ hasData = TRUE
    /\ loaded = Platforms
    /\ pollState = "idle"
    /\ fetched = "ok"
    /\ last_update_success = TRUE
    /\ last_exception = "none"
    /\ codec = NoCodec
    /\ client = [NoClient EXCEPT !.methods = @ \cup {"push_state"}]
    /\ call = NoCall
    /\ sent = NoSent
    /\ clock = 0
    /\ tokens = NoTokens

SpecPush == InitPush /\ [][NextCmd]_vars

-----------------------------------------------------------------------------
(* HubspaceClient.get_auth_token: the bearer token cache.                  *)

\* _token_duration = 118 * 1000
_token_duration == 118 * 1000

\* HubspaceClient.get_utc_time: the wall clock cut to whole seconds, in ms.
get_utc_time(now) == (now \div 1000) * 1000

\* What the token endpoint answers: a body with an id_token, a body
\* without one, or the request raises (timeout, transport).
TokenResponses == {"id_token", "missing", "error"}

\* The id_token of the n-th answer.
Token(n) == StrV(<<"t1", "t2", "t3", "t4", "t5">>[n])

\* Mutant: a token is reused up to and including the duration.
get_auth_token_inclusive(c, utc_time, response, fresh) ==
    IF c._last_token # NoneV /\ (utc_time - c._last_token_time.n) <= _token_duration
    THEN [raised |-> FALSE, requested |-> FALSE, ret |-> c._last_token, client |-> c]
    ELSE IF response = "error"
    THEN [raised |-> TRUE, requested |-> TRUE, ret |-> NoneV, client |-> c]
    ELSE LET token == IF response = "id_token" THEN fresh ELSE NoneV
         IN [raised |-> FALSE, requested |-> TRUE, ret |-> token,
             client |-> [c EXCEPT !._last_token = token,
                                  !._last_token_time = NumV(utc_time)]]

\* HubspaceClient.get_auth_token called at utc_time, the endpoint answering
\* `response` (with the token `fresh`) if asked.
get_auth_token(c, utc_time, response, fresh) ==
    IF c._last_token # NoneV /\ (utc_time - c._last_token_time.n) < _token_duration
    THEN [raised |-> FALSE, requested |-> FALSE, ret |-> c._last_token, client |-> c]
    ELSE IF response = "error"
    THEN [raised |-> TRUE, requested |-> TRUE, ret |-> NoneV, client |-> c]
    ELSE LET token == IF response = "id_token" THEN fresh ELSE NoneV
         IN [raised |-> FALSE, requested |-> TRUE, ret |-> token,
             client |-> [c EXCEPT !._last_token = token,
                                  !._last_token_time = NumV(utc_time)]]

\* How far the clock moves between two events, and how long the token
\* endpoint takes to answer (a request that raises is not timed).
Ticks == {117000, 117500, 118000}
RequestDelays == {0, 1500}
MaxClock == 240000
MaxTokens == 3

\* Time passes.
Tick ==
    /\ \E d \in Ticks :
          /\ clock + d <= MaxClock
          /\ clock' = clock + d
    /\ UNCHANGED <<mainVars, codec, client, call, sent, tokens>>

\* get_devices or get_account_id asks for the bearer token.
GetAuthToken ==
    /\ Len(tokens) < MaxTokens
    /\ \E response \in TokenResponses, delay \in RequestDelays :
          LET r == get_auth_token(client, get_utc_time(clock), response,
                                  Token(Len(tokens) + 1))
              took == IF r.requested /\ ~r.raised THEN delay ELSE 0
          IN /\ clock + took <= MaxClock
             /\ client' = r.client
             /\ clock' = clock + took
             /\ tokens' = IF r.requested /\ ~r.raised
                          THEN Append(tokens, [at |-> clock + took, token |-> r.ret])
                          ELSE tokens
             /\ call' = [op |-> "get_auth_token", phase |-> "done",
                         raised |-> r.raised, requested |-> r.requested, ret |-> r.ret,
                         utc_time |-> get_utc_time(clock)]
    /\ UNCHANGED <<mainVars, codec, sent>>

NextToken == Tick \/ GetAuthToken

\* The client after authenticate(): no token yet.
InitToken ==
    /\ MainIdle
    /\ codec = NoCodec
    /\ AuxIdle

SpecToken == InitToken /\ [][NextToken]_vars

-----------------------------------------------------------------------------
(* The commands of HubspaceFan.                                            *)

\* FunctionClass.FAN_DIRECTION
FAN_DIRECTION == "fan-reverse"

\* A fan with a direction, whose first preset is the one enabled.
FanC ==
    Rec("metadevice.device", "d2", "fan",
        <<PowerFn, FanSpeedFn, ToggleFn("comfort-breeze"), ToggleFn("eco"),
          Fn(FAN_DIRECTION, None, <<"forward", "reverse">>)>>, TRUE,
        <<SV(POWER, None, StrV("on")),
          SV(FAN_SPEED, "fan-speed", StrV("fan-speed-025")),
          SV(TOGGLE, "comfort-breeze", StrV("enabled")),
          SV(TOGGLE, "eco", StrV("disabled")),
          SV(FAN_DIRECTION, None, StrV("forward"))>>)

\* HubspaceFan._fan_speed_values of an entity.
FanSpeedValuesOf(e) ==
    LET r == _get_function_values(e, Bare(FAN_SPEED), NoneV)
    IN IF r.found THEN _fan_speed_values(r.list) ELSE <<>>

\* HubspaceFan.preset_modes: "auto" and then every toggle instance of the
\* index, in dict order; empty when there is none.
preset_modes(e, h) ==
    LET e1 == states(e, h)
        named == SelectSeq(e1.states.keys, LAMBDA en : en.fc = TOGGLE /\ en.fi # None)
    IN IF named = <<>> THEN <<>>
       ELSE <<"auto">> \o [j \in 1..Len(named) |-> named[j].fi]

\* A command of the host on a fan, with its argument if it has one.
FanCmd(name, arg) ==
    [name |-> name, hasBrightness |-> FALSE, brightness |-> 0, arg |-> arg]
Percentages == {1, 50, 100}
Directions == {"forward", "reverse"}
FanCommands(e, h) ==
    IF e.platform # "fan" \/ ~states(e, h).states.built THEN {}
    ELSE {FanCmd("set_percentage", NumV(p)) : p \in Percentages}
           \cup {FanCmd("turn_on_percentage", NumV(p)) : p \in Percentages}
           \cup {FanCmd("set_preset_mode", StrV(m)) :
                    m \in {"auto"} \cup {preset_modes(e, h)[j] : j \in 1..Len(preset_modes(e, h))}}
           \cup {FanCmd("turn_on_preset", StrV(m)) :
                    m \in {preset_modes(e, h)[j] : j \in 2..Len(preset_modes(e, h))}}
           \cup {FanCmd("set_direction", StrV(d)) : d \in Directions}

\* The _set_state_value calls of a fan command, in order, and whether the
\* method raises after them (no speed list to choose from).
FanWrites(e, c, h) ==
    LET item == percentage_to_ordered_list_item(FanSpeedValuesOf(e), c.arg.n)
        speed == IF item.raised THEN <<>>
                 ELSE <<[key |-> Bare(FAN_SPEED), value |-> item.v]>>
        on == <<[key |-> Bare(POWER), value |-> StrV(STATE_ON)]>>
        modes == preset_modes(e, h)
    IN CASE c.name = "set_percentage" -> [writes |-> speed, raised |-> item.raised]
         [] c.name = "turn_on_percentage" -> [writes |-> on \o speed, raised |-> item.raised]
         [] c.name = "turn_on_preset" ->
              [writes |-> on \o <<[key |-> Tuple(TOGGLE, c.arg.s),
                                   value |-> StrV(TOGGLE_ENABLED)]>>,
               raised |-> FALSE]
         [] c.name = "set_preset_mode" /\ c.arg.s = "auto" ->
              [writes |-> [j \in 1..Len(modes) |->
                             [key |-> Tuple(TOGGLE, modes[j]),
                              value |-> StrV(TOGGLE_DISABLED)]],
               raised |-> FALSE]
         [] c.name = "set_preset_mode" /\ c.arg.s # "auto" ->
              [writes |-> <<[key |-> Tuple(TOGGLE, c.arg.s),
                             value |-> StrV(TOGGLE_ENABLED)]>>,
               raised |-> FALSE]
         [] c.name = "set_direction" ->
              [writes |-> <<[key |-> Bare(FAN_DIRECTION), value |-> c.arg]>>,
               raised |-> FALSE]

\* The host calls set_percentage, set_preset_mode, set_direction or turn_on
\* with an argument on a fan: the optimistic writes.
FanCommand ==
    /\ call.phase = "done"
    /\ Len(sent) < MaxSent
    /\ \E k \in 1..Len(entities) :
          \E c \in FanCommands(entities[k], heap) :
             LET e == entities[k]
                 w == FanWrites(e, c, heap)
                 r == ApplyWrites(functions(e), w.writes, 1, heap)
                 failed == r.raised \/ w.raised
             IN /\ entities' = [entities EXCEPT ![k] = r.e]
                /\ heap' = r.h
                /\ call' = [op |-> c.name, k |-> k, cmd |-> c,
                            before |-> heap[r.e.states.doc],
                            phase |-> IF failed THEN "done" ELSE "push",
                            ret |-> IF failed THEN "raised" ELSE "none",
                            response |-> <<>>]
    /\ UNCHANGED <<mainVarsButEntitiesAndHeap, codec, client, sent, clock, tokens>>

NextFanCmd == Command \/ FanCommand \/ PushState

FanRecords == {FanA, FanB, FanC}

\* The integration as it is, set up over a listing of one fan.
InitFanCmd ==
    /\ \E rec \in FanRecords, written \in BOOLEAN :
          LET refs == ToRefs(pull_coordinator_data(<<rec>>), DocIds)
              h == HeapWith([r \in DocIds |-> <<>>], pull_coordinator_data(<<rec>>), refs)
              made == AllEntities(refs)
          IN /\ cloud = <<rec>>
             /\ data = refs
             /\ heap = h
             /\ entities = [j \in 1..Len(made) |->
                              IF written THEN WriteState(made[j], h) ELSE made[j]]
    /\ hostAborts = TRUE
    /\ failures = 0
    /\ setup = "ready"
    /\ hasData = TRUE
    /\ loaded = Platforms
    /\ pollState = "idle"
    /\ fetched = "ok"
    /\ last_update_success = TRUE
    /\ last_exception = "none"
    /\ codec = NoCodec
    /\ AuxIdle

SpecFanCmd == InitFanCmd /\ [][NextFanCmd]_vars

-----------------------------------------------------------------------------
(* Commands, pushes and polls on a power outlet, with a vendor that takes  *)
(* the state updates.                                                      *)

\* The vendor sets the values a batch names, the last entry for a class and
\* instance winning.
Applied(vals, batch) ==
    [i \in 1..Len(vals) |->
        LET hits == {j \in 1..Len(batch) :
                        /\ batch[j].functionClass = vals[i].functionClass
                        /\ batch[j].functionInstance = vals[i].functionInstance}
        IN IF hits = {} THEN vals[i]
           ELSE [vals[i] EXCEPT !.value = batch[CHOOSE j \in hits : \A q \in hits : q <= j].value]]
VendorApply(listing, metadeviceId, batch) ==
    [j \in 1..Len(listing) |->
        IF listing[j].id = metadeviceId /\ listing[j].typeId = "metadevice.device"
        THEN [listing[j] EXCEPT !.values = Applied(@, batch)]
        ELSE listing[j]]

\* HubspaceEntity._push_state against a vendor that applies the update and
\* answers with the state the device then has.
PushStateVendor ==
    /\ call.phase = "push"
    /\ \E outcome \in PushOutcomes :
          LET e == entities[call.k]
              r == push_state(client, e.idx, e, heap, outcome, TRUE)
              listing == VendorApply(cloud, e.idx, r.sent[1].values)
              ref == NthOf(DocIds \ (EntDocs(entities) \cup DataDocs(data)), 1)
              h1 == [heap EXCEPT ![ref] = Lookup(listing, e.idx).values]
              e1 == WriteState(_set_state(e, ref, h1), h1)
              ents1 == [entities EXCEPT ![call.k] = e1]
          IN /\ sent' = sent \o r.sent
             /\ IF r.raised # "none"
                THEN /\ call' = [call EXCEPT !.phase = "done", !.ret = r.raised]
                     /\ UNCHANGED <<cloud, data, entities, heap>>
                ELSE /\ call' = [call EXCEPT !.phase = "done", !.ret = "ok",
                                             !.response = h1[ref]]
                     /\ cloud' = listing
                     /\ data' = CollectData(data, ents1)
                     /\ entities' = CollectEntities(data, ents1)
                     /\ heap' = CollectHeap(h1, data, ents1)
    /\ UNCHANGED <<setup, hasData, loaded, pollState, fetched,
                   last_update_success, last_exception, codec, client, hostAborts, failures,
                   clock, tokens>>

NextOutlet ==
    \/ Command
    \/ PushStateVendor
    \/ PollStart
    \/ PollSucceed
    \/ PollFail

OutletRecords == {Outlet2A, Outlet2B}

\* The integration set up over a listing of one power outlet, with a client
\* that does have push_state.
InitOutlet ==
    /\ \E rec \in OutletRecords :
          LET refs == ToRefs(pull_coordinator_data(<<rec>>), DocIds)
              h == HeapWith([r \in DocIds |-> <<>>], pull_coordinator_data(<<rec>>), refs)
              made == AllEntities(refs)
          IN /\ cloud = <<rec>>
             /\ data = refs
             /\ heap = h
             /\ entities = [j \in 1..Len(made) |-> WriteState(made[j], h)]
    /\ hostAborts = TRUE
    /\ failures = 0
    /\ setup = "ready"
    /\ hasData = TRUE
    /\ loaded = Platforms
    /\ pollState = "idle"
    /\ fetched = "ok"
    /\ last_update_success = TRUE
    /\ last_exception = "none"
    /\ codec = NoCodec
    /\ client = [NoClient EXCEPT !.methods = @ \cup {"push_state"}]
    /\ call = NoCall
    /\ sent = NoSent
    /\ clock = 0
    /\ tokens = NoTokens

SpecOutlet == InitOutlet /\ [][NextOutlet]_vars

-----------------------------------------------------------------------------
(* Properties.                                                             *)

\* A step that ends a refresh (the first refresh of set-up, or a poll).
RefreshEnds ==
    \/ pollState = "fetching" /\ pollState' = "idle"
    \/ setup = "registered" /\ setup' # "registered"

\* C1 - Poll failure isolation: when the listing call of a refresh times out
\* or raises a transport error, the snapshot after the cycle is the one held
\* before it, record for record and value for value, and every entity still
\* finds its device in it.
C1_PollFailureIsolation ==
    [][(RefreshEnds /\ fetched' \in {"timeout", "transport"}) =>
          /\ hasData' = hasData
          /\ Snapshot(data', heap') = Snapshot(data, heap)
          /\ \A k \in 1..Len(entities) :
                entities[k].idx \in Ids(data) =>
                   /\ k \in 1..Len(entities')
                   /\ entities'[k].idx \in Ids(data')
                   /\ Deref(Lookup(data', entities'[k].idx), heap')
                        = Deref(Lookup(data, entities[k].idx), heap)]_vars

\* A failed poll has happened while entities read a non-empty snapshot.
C1_Witness ==
    /\ fetched \in {"timeout", "transport"}
    /\ pollState = "idle"
    /\ hasData
    /\ \E k \in 1..Len(entities) : entities[k].idx \in Ids(data)

\* The last record of a listing with a given id.
LastOf(listing, id) ==
    listing[CHOOSE i \in 1..Len(listing) :
                /\ listing[i].typeId = "metadevice.device"
                /\ listing[i].id = id
                /\ \A j \in (i + 1)..Len(listing) :
                      ~(listing[j].typeId = "metadevice.device" /\ listing[j].id = id)]

\* C2 - A successful fetch replaces the snapshot wholesale: afterwards the
\* snapshot holds exactly one record per id of the "metadevice.device"
\* records of the fetched listing, each as the listing gave it (the last one
\* for an id listed twice), and nothing else.
C2_WholesaleReplacement ==
    [][(RefreshEnds /\ fetched' = "ok") =>
          LET snap == Snapshot(data', heap')
          IN /\ hasData'
             /\ Ids(snap) = {cloud[i].id : i \in {j \in 1..Len(cloud) :
                                  cloud[j].typeId = "metadevice.device"}}
             /\ \A i, j \in 1..Len(snap) : snap[i].id = snap[j].id => i = j
             /\ \A j \in 1..Len(snap) : snap[j] = LastOf(cloud, snap[j].id)]_vars

\* A fetch has succeeded and the device of an entity is absent from the new
\* snapshot although it was in the one the entity was made from.
C2_Witness ==
    /\ fetched = "ok"
    /\ pollState = "idle"
    /\ hasData
    /\ \E k \in 1..Len(entities) : entities[k].idx \notin Ids(data)

\* The keys of an index, bare and as (class, instance) tuples.
KeysOf(index) ==
    {Bare(index[j].fc) : j \in 1..Len(index)}
      \cup {Tuple(index[j].fc, index[j].fi) : j \in 1..Len(index)}

\* An entity made anew from a record of the snapshot.
Rebuilt(e, d, h) ==
    _set_state(HubspaceEntity(e.platform, e.idx, d, e.index), Lookup(d, e.idx).state, h)

\* C3 - After a successful poll and the update notification of every
\* entity, each value get_state returns is the decoded value of the device's
\* state in the new snapshot, for lights, fans and switches alike.
C3_ViewRebuiltOnRefresh ==
    [][(/\ pollState = "fetching" /\ pollState' = "idle" /\ fetched' = "ok"
        /\ \A k \in 1..Len(entities') :
              /\ entities'[k].idx \in Ids(data')
              /\ Lookup(data', entities'[k].idx).state # NoDoc) =>
          \A k \in 1..Len(entities') :
             LET fresh == Rebuilt(entities'[k], data', heap')
             IN \A key \in KeysOf(fresh.states.keys) :
                   _get_state_value(entities'[k], key, NoneV, heap')
                     = _get_state_value(fresh, key, NoneV, heap')]_vars

\* C4 - A fetch that times out or raises a transport error is reported as
\* UpdateFailed and as no other kind of error.
C4_FailureIsUpdateFailed ==
    fetched \in {"timeout", "transport"} => last_exception = "UpdateFailed"

\* The switch platform is being set up.
SwitchSetup == "switch" \notin loaded /\ "switch" \in loaded'

\* The entities a step adds for a device.
AddedFor(id) ==
    {k \in (Len(entities) + 1)..Len(entities') : entities'[k].idx = id}

ToggleCount(rec) ==
    Cardinality({j \in 1..Len(rec.functions) : rec.functions[j].functionClass = TOGGLE})

\* C5 - Outlet splitting: the switch platform makes of a power-outlet record
\* with N > 1 toggle functions exactly N entities, with the indices 1..N,
\* the unique ids {id}_1 .. {id}_N and the keys (toggle, outlet-i); of a
\* power-outlet record with exactly one toggle function it makes exactly one
\* entity, whose unique id is {id} without suffix.
C5_OutletSplitting ==
    [][SwitchSetup =>
          \A j \in 1..Len(data) :
             LET rec == data[j]
                 N == ToggleCount(rec)
                 added == AddedFor(rec.id)
             IN rec.deviceClass = "power-outlet" =>
                  /\ N > 1 =>
                       /\ Cardinality(added) = N
                       /\ {entities'[k].index : k \in added} = 1..N
                       /\ \A k \in added :
                             /\ unique_id(entities'[k])
                                  = [id |-> rec.id, suffix |-> entities'[k].index]
                             /\ SwitchKey(entities'[k])
                                  = Tuple(TOGGLE, OutletName(entities'[k].index))
                  /\ N = 1 =>
                       /\ Cardinality(added) = 1
                       /\ \A k \in added :
                             unique_id(entities'[k]) = [id |-> rec.id, suffix |-> NoIndex]]_vars

\* The switch platform has split an outlet: an entity with index 2 exists.
C5_Witness ==
    /\ "switch" \in loaded
    /\ \E k \in 1..Len(entities) :
          /\ entities[k].platform = "switch"
          /\ entities[k].index = 2
          /\ unique_id(entities[k]) = [id |-> "d3", suffix |-> 2]

\* C6 - A power-outlet record with no toggle function yields exactly one
\* switch entity, without index.
C6_ZeroTogglesOneEntity ==
    [][SwitchSetup =>
          \A j \in 1..Len(data) :
             (data[j].deviceClass = "power-outlet" /\ ToggleCount(data[j]) = 0) =>
                /\ Cardinality(AddedFor(data[j].id)) = 1
                /\ \A k \in AddedFor(data[j].id) : entities'[k].index = NoIndex]_vars

\* The StateValue entries of a class in an entity's state document.
EntriesOf(e, h, fc) ==
    SelectSeq(h[e.states.doc], LAMBDA sv : sv.functionClass = fc)

\* C7 - When the state holds two entries of one class, both without
\* instance, get_state(class) returns the decoded value of the first of them
\* and does not raise.
C7_AmbiguousFirstSeen ==
    \A k \in 1..Len(entities) :
       LET e == entities[k]
       IN \A fc \in {POWER, TOGGLE} :
             LET found == EntriesOf(e, heap, fc)
             IN (/\ e.states.built
                 /\ Len(found) >= 2
                 /\ \A i \in 1..Len(found) : found[i].functionInstance = None) =>
                   /\ ~_get_state_value(e, Bare(fc), NoneV, heap).raised
                   /\ _get_state_value(e, Bare(fc), NoneV, heap)
                        = hass_value(e.platform, found[1])

\* The named toggle instances of an entity's index whose value is "enabled".
EnabledPresets(e, h) ==
    {e.states.keys[j].fi : j \in {i \in 1..Len(e.states.keys) :
        /\ e.states.keys[i].fc = TOGGLE
        /\ e.states.keys[i].fi # None
        /\ h[e.states.doc][e.states.keys[i].pos].value = StrV(TOGGLE_ENABLED)}}

\* C8 - Preset scan: the active preset of a fan is the name of an enabled
\* toggle entry with an instance when there is one and "auto" when there is
\* none; entries of other classes and toggle entries without instance do
\* not count.
C8_PresetScan ==
    \A k \in 1..Len(entities) :
       LET e == entities[k]
           preset == preset_mode(e, heap)
       IN (e.platform = "fan" /\ e.states.built) =>
             /\ ~preset.raised
             /\ IF EnabledPresets(e, heap) = {}
                THEN preset.v = StrV("auto")
                ELSE preset.v \in {StrV(fi) : fi \in EnabledPresets(e, heap)}

\* A fan whose preset is a named toggle, and so not "auto".
C8_Witness ==
    \E k \in 1..Len(entities) :
       /\ entities[k].platform = "fan"
       /\ entities[k].states.built
       /\ preset_mode(entities[k], heap) = Ret(StrV("eco"))

\* The labels of a descriptor other than the off label, and the place of a
\* label among them in numeric order (from 1).
NonOff(names) == {names[i] : i \in 1..Len(names)} \ {"fan-speed-000"}
PlaceOf(names, label) ==
    Cardinality({x \in NonOff(names) : IntOfLast3(x) <= IntOfLast3(label)})

\* C9 as claimed - the percentage of the label at index i (from 0) of the
\* count ordered non-off labels is i * 100 / (count - 1), so 33 for
\* fan-speed-050 among fan-speed-025 .. fan-speed-100.
C9_IndexOverCountMinusOne ==
    (/\ codec.step = "out"
     /\ "fan-speed-000" \in {codec.in.names[i] : i \in 1..Len(codec.in.names)}
     /\ codec.in.speed.s \in NonOff(codec.in.names)
     /\ Cardinality(NonOff(codec.in.names)) > 1) =>
        codec.out = Ret(NumV(((PlaceOf(codec.in.names, codec.in.speed.s) - 1) * 100)
                               \div (Cardinality(NonOff(codec.in.names)) - 1)))

\* C9 as amended - for a descriptor that declares fan-speed-000, the
\* percentage of the label at place p (from 1) of the count ordered non-off
\* labels is p * 100 // count: 50 for fan-speed-050 and 100 for
\* fan-speed-100 among fan-speed-025 .. fan-speed-100.
C9_PlaceOverCount ==
    (/\ codec.step = "out"
     /\ "fan-speed-000" \in {codec.in.names[i] : i \in 1..Len(codec.in.names)}
     /\ codec.in.speed.s \in NonOff(codec.in.names)) =>
        /\ codec.out = Ret(NumV((PlaceOf(codec.in.names, codec.in.speed.s) * 100)
                                  \div Cardinality(NonOff(codec.in.names))))
        /\ (NonOff(codec.in.names) = FanSpeedLabels \ {"fan-speed-000"}) =>
              /\ codec.in.speed.s = "fan-speed-050" => codec.out.v = NumV(50)
              /\ codec.in.speed.s = "fan-speed-100" => codec.out.v = NumV(100)

\* The percentage of fan-speed-050 has been read for a descriptor that
\* lists the five labels out of order.
C9_Witness ==
    /\ codec.step = "out"
    /\ codec.in.names = <<"fan-speed-100", "fan-speed-000", "fan-speed-050",
                          "fan-speed-025", "fan-speed-075">>
    /\ codec.in.speed = StrV("fan-speed-050")
    /\ codec.out = Ret(NumV(50))

\* C10 - Brightness: the decoded value is the whole part of raw * 255 / 100
\* and the value encoded from it the whole part of hass * 100 / 255; the
\* re-encoded value differs from the raw percent by at most 1, and 0 and
\* 100 map to 0 and 255 and back to themselves.
C10_BrightnessRoundTrip ==
    /\ codec.step \in {"out", "back"} =>
          /\ ~codec.out.raised
          /\ codec.out.v.t = "num"
          /\ 100 * codec.out.v.n <= 255 * codec.in.value.n
          /\ 255 * codec.in.value.n < 100 * (codec.out.v.n + 1)
          /\ codec.in.value.n = 0 => codec.out.v.n = 0
          /\ codec.in.value.n = 100 => codec.out.v.n = 255
    /\ codec.step = "back" =>
          /\ codec.back.value.t = "num"
          /\ 255 * codec.back.value.n <= 100 * codec.out.v.n
          /\ 100 * codec.out.v.n < 255 * (codec.back.value.n + 1)
          /\ codec.back.value.n - codec.in.value.n \in {-1, 0, 1}
          /\ codec.in.value.n \in {0, 100} => codec.back.value.n = codec.in.value.n

\* A raw percent that does not survive the round trip: 50 -> 127 -> 49.
C10_Witness ==
    /\ codec.step = "back"
    /\ codec.in.value = NumV(50)
    /\ codec.out.v = NumV(127)
    /\ codec.back.value = NumV(49)

\* The record of an entity's device in the current snapshot, its state
\* document read out, and the values of a class in it.
RecordOf(e) == Deref(Lookup(data, e.idx), heap)
ValuesOf(e, fc) == SelectSeq(RecordOf(e).values, LAMBDA sv : sv.functionClass = fc)

C12_AbsentGivesDefault ==
    /\ (/\ call.op = "get_state"
        /\ ValuesOf(entities[call.k], call.key.fc) = <<>>) =>
           call.ret = Ret(call.default)
    /\ (/\ call.op = "get_function_values"
        /\ \A j \in 1..Len(RecordOf(entities[call.k]).functions) :
              RecordOf(entities[call.k]).functions[j].functionClass # call.key.fc) =>
           /\ ~call.ret.raised
           /\ ~call.ret.found
           /\ call.ret.v = call.default

\* A step in which _push_state runs to its end.
PushEnds == call.phase = "push" /\ call'.phase = "done"

\* The values a batch is to carry, read from the state document: what the
\* entity's index holds of it, set and of a settable class.
Settable == {"power", "brightness", "color-temperature", "fan-speed", "fan-reverse", "toggle"}
IndexedValues(e, h) ==
    {h[e.states.doc][e.states.keys[j].pos] : j \in 1..Len(e.states.keys)}
ToPush(e, h) ==
    {sv \in IndexedValues(e, h) : sv.value # NoneV /\ sv.functionClass \in Settable}

\* C13 - Every push sends one batch, for the device of the entity, with
\* exactly one entry per StateValue of the index that is set and whose
\* class is power, brightness, color-temperature, fan-speed, fan-reverse or
\* toggle; no entry of class available is pushed.
C13_PushBatchAllowList ==
    [][PushEnds =>
          /\ Len(sent') = Len(sent) + 1
          /\ LET batch == sent'[Len(sent')]
                 e == entities[call.k]
             IN /\ batch.metadeviceId = e.idx
                /\ {batch.values[i] : i \in 1..Len(batch.values)} = ToPush(e, heap)
                /\ Len(batch.values) = Cardinality(ToPush(e, heap))
                /\ \A i \in 1..Len(batch.values) :
                      batch.values[i].functionClass # "available"]_vars

\* The keys (class, instance) of the values of a document an index takes,
\* and the last value a document holds under a key.
DocKeys(doc) ==
    {<<doc[i].functionClass, doc[i].functionInstance>> :
        i \in {j \in 1..Len(doc) : doc[j].functionClass # "unsupported"}}
LastUnder(doc, key) ==
    doc[CHOOSE i \in 1..Len(doc) :
              /\ <<doc[i].functionClass, doc[i].functionInstance>> = key
              /\ \A j \in (i + 1)..Len(doc) :
                    <<doc[j].functionClass, doc[j].functionInstance>> # key]
IndexKeys(e) == {<<e.states.keys[j].fc, e.states.keys[j].fi>> : j \in 1..Len(e.states.keys)}

IndexedAt(e, fc) == {e.states.keys[j].pos : j \in {i \in 1..Len(e.states.keys) :
                        e.states.keys[i].fc = fc}}
OutletAt(e) == {e.states.keys[j].pos : j \in {i \in 1..Len(e.states.keys) :
                   /\ e.states.keys[i].fc = "toggle"
                   /\ e.index # NoIndex => e.states.keys[i].fi = OutletName(e.index)}}

\* What a command leaves in the document: "on" or "off" where the entity
\* keeps its power (a switch: its outlet), the brightness as a percentage
\* where a light was given one, and everywhere else what was there before.
Optimistic(e, c, before) ==
    [i \in 1..Len(before) |->
        IF (e.platform = "switch" /\ i \in OutletAt(e))
             \/ (e.platform # "switch" /\ i \in IndexedAt(e, "power"))
        THEN [before[i] EXCEPT !.value = StrV(IF c.name = "turn_on" THEN "on" ELSE "off")]
        ELSE IF e.platform = "light" /\ c.name = "turn_on" /\ c.hasBrightness
                /\ i \in IndexedAt(e, "brightness")
        THEN [before[i] EXCEPT !.value = NumV((c.brightness * 100) \div 255)]
        ELSE before[i]]

\* C15 - When the state update of a push fails the command fails with the
\* error of the call, and the state index is as the command wrote it: the
\* optimistic values stay and every other entry is as before the command.
C15_PushFailureKeepsOptimistic ==
    [][(PushEnds /\ call'.ret # "ok") =>
          /\ call'.ret \in {"AttributeError", "error"}
          /\ entities' = entities
          /\ heap' = heap
          /\ LET e == entities'[call.k]
             IN /\ e.states.built
                /\ heap'[e.states.doc] = Optimistic(e, call.cmd, call.before)]_vars

\* A push has failed after turn_on changed the power value of a fan from
\* "off" to "on".
C15_Witness ==
    /\ call.op = "turn_on"
    /\ call.phase = "done"
    /\ call.ret = "AttributeError"
    /\ entities[call.k].platform = "fan"
    /\ entities[call.k].states.built
    /\ \E i \in 1..Len(call.before) :
          /\ call.before[i] = SV(POWER, None, StrV("off"))
          /\ heap[entities[call.k].states.doc][i] = SV(POWER, None, StrV("on"))

\* The members of a list of ids.
Members(ids) == {ids[j] : j \in 1..Len(ids)}
\* How many of the three lists hold an id.
ListsHolding(id) ==
    Cardinality({n \in {"lights", "fans", "switches"} :
        id \in Members(CASE n = "lights" -> lights(data)
                         [] n = "fans" -> fans(data)
                         [] OTHER -> switches(data))})

\* C16 - The three lists are computed from the current snapshot: a light is
\* in lights, a fan or ceiling-fan in fans, a switch or power-outlet in
\* switches; each such device is in exactly one list, and no list holds an
\* id that the snapshot does not.
C16_ListsClassifySnapshot ==
    hasData =>
        /\ \A j \in 1..Len(data) :
              LET device == data[j]
              IN /\ device.deviceClass = "light" => device.id \in Members(lights(data))
                 /\ device.deviceClass \in {"fan", "ceiling-fan"}
                       => device.id \in Members(fans(data))
                 /\ device.deviceClass \in {"switch", "power-outlet"}
                       => device.id \in Members(switches(data))
                 /\ device.deviceClass \in {"light", "fan", "ceiling-fan", "switch",
                                            "power-outlet"}
                       => ListsHolding(device.id) = 1
        /\ Members(lights(data)) \cup Members(fans(data)) \cup Members(switches(data))
              \subseteq Ids(data)

\* What the host can read of an entity: its availability and the raw value
\* under every key of its index.
Readable(e, h) ==
    LET e1 == states(e, h)
    IN [available |-> available(e, h),
        values |-> IF e1.states.built
                   THEN [i \in 1..Len(e1.states.keys) |->
                           [fc |-> e1.states.keys[i].fc, fi |-> e1.states.keys[i].fi,
                            value |-> h[e1.states.doc][e1.states.keys[i].pos].value]]
                   ELSE <<>>]
\* A poll's fetch ends in failure.
FetchFails == pollState = "fetching" /\ pollState' = "idle" /\ ~last_update_success'

\* C17 - An entity whose index has no `available` entry is available; and a
\* fetch that fails changes neither the availability nor the last known
\* state values of any entity.
C17_AvailabilityAndFailedFetch ==
    [][/\ \A k \in 1..Len(entities) :
             LET e1 == states(entities[k], heap)
             IN (e1.states.built /\ Selected(e1.states.keys, Bare(AVAILABLE)) = <<>>)
                   => available(entities[k], heap) = Ret(BoolV(TRUE))
       /\ FetchFails =>
             /\ Len(entities') = Len(entities)
             /\ \A k \in 1..Len(entities) :
                   Readable(entities'[k], heap') = Readable(entities[k], heap)]_vars

\* A fetch has failed while one entity is unavailable by its `available`
\* value and another is available for want of one.
C17_Witness ==
    /\ pollState = "idle"
    /\ ~last_update_success
    /\ setup = "ready"
    /\ \E k \in 1..Len(entities) : available(entities[k], heap) = Ret(BoolV(FALSE))
    /\ \E k \in 1..Len(entities) :
          /\ Selected(states(entities[k], heap).states.keys, Bare(AVAILABLE)) = <<>>
          /\ available(entities[k], heap) = Ret(BoolV(TRUE))

\* A step adds entities or sets up a platform.
EntitiesCreated == Len(entities') > Len(entities) \/ loaded' # loaded

EntityIds == {entities[k].idx : k \in 1..Len(entities)}

\* C20 - When set-up has succeeded an entity exists for every device id of
\* the coordinator's lights, fans and switches lists.
C20_EntityForEveryListedDevice ==
    [][(SetupDone' /\ ~SetupDone) =>
          Members(lights(data')) \cup Members(fans(data')) \cup Members(switches(data'))
             \subseteq EntityIds']_vars

\* A step is a call of get_auth_token that returns.
TokenCall == call' # call /\ call'.op = "get_auth_token" /\ ~call'.raised
\* The cache holds a token recorded fewer than 118000 ms before the call.
CacheFresh ==
    /\ client._last_token # NoneV
    /\ call'.utc_time - client._last_token_time.n < 118000
\* When the vendor issued the token the cache holds.
ObtainedAt(token) == tokens[CHOOSE i \in 1..Len(tokens) : tokens[i].token = token].at

\* C19 - get_auth_token returns the cached token without a request exactly
\* when a non-null token is cached and fewer than 118000 ms have passed
\* since the time recorded for it; otherwise it requests a token and records
\* it with the current time.  No token comes out of the cache 118 s or more
\* after it was obtained.
C19_TokenCache ==
    [][TokenCall =>
          /\ CacheFresh <=> ~call'.requested
          /\ ~call'.requested =>
                /\ call'.ret = client._last_token
                /\ client' = client
                /\ tokens' = tokens
                /\ clock - ObtainedAt(call'.ret) < 118000
          /\ call'.requested =>
                /\ Len(tokens') = Len(tokens) + 1
                /\ call'.ret = tokens'[Len(tokens')].token
                /\ client'._last_token = call'.ret
                /\ client'._last_token_time = NumV(call'.utc_time)]_vars

\* A token has come out of the cache 117 s or more after it was recorded,
\* and a call at 118 s or more has asked for a new one.
C19_Witness ==
    /\ call.op = "get_auth_token"
    /\ call.phase = "done"
    /\ ~call.requested
    /\ call.utc_time - client._last_token_time.n >= 117000

\* A step in which an entity method of the host's runs: a command's writes
\* or its push.
EntityStep == call' # call /\ call'.op # "none"

\* C21 - No entity operation writes to the coordinator's snapshot: over
\* every command and its push the raw records of the snapshot are the same
\* before and after.
C21_CommandsLeaveSnapshot ==
    [][EntityStep => Snapshot(data', heap') = Snapshot(data, heap)]_vars

\* The value the vendor holds for a toggle instance of a device.
VendorValue(metadeviceId, fi) ==
    LET vals == Lookup(cloud, metadeviceId).values
    IN vals[CHOOSE i \in 1..Len(vals) :
               vals[i].functionClass = TOGGLE /\ vals[i].functionInstance = fi].value
\* A step in which a state update goes out.
BatchSent == Len(sent') = Len(sent) + 1

NotifiedMidCommand ==
    /\ call.phase = "push"
    /\ pollState = "fetching"
    /\ pollState' = "idle"
    /\ last_update_success'
\* What an entity of an outlet holds for its own outlet.
OwnValue(e, h) == _get_state_value(e, SwitchKey(e), NoneV, h).v

C24_PollCyclesIndependent ==
    [][/\ (pollState = "fetching" /\ pollState' = "idle" /\ fetched' = "ok") =>
             /\ last_update_success'
             /\ last_exception' = "none"
             /\ hasData'
             /\ Snapshot(data', heap') = pull_coordinator_data(cloud)
       /\ FetchFails =>
             /\ setup' = "ready"
             /\ loaded' = Platforms
             /\ entities' # <<>>
             /\ cloud' = cloud]_vars

\* A poll has succeeded after two or more failed ones in a row, and the
\* snapshot is the listing it fetched.
C24_Witness ==
    /\ fetched = "ok"
    /\ pollState = "idle"
    /\ failures >= 2
    /\ last_update_success
    /\ entities # <<>>
    /\ Snapshot(data, heap) = pull_coordinator_data(cloud)

\* The StateValue an entry of the index refers to.
StoredAt(e, h, j) == h[e.states.doc][e.states.keys[j].pos]

\* C25 - _set_state_value with a (class, instance) key changes only the
\* StateValue stored under exactly that class and instance, and with no such
\* entry it changes nothing and creates no entry; with a bare class it changes
\* every instance stored under that class; the StateValues of every other
\* class stay as they were.
C25_SetStateValueFrame ==
    [][(call'.op = "_set_state_value" /\ ~call'.raised) =>
          LET k == call'.k
              key == call'.key
              e0 == states(entities[k], heap)
              e1 == entities'[k]
          IN /\ e1.states = e0.states
             /\ \A j \in 1..Len(e0.states.keys) :
                   LET entry == e0.states.keys[j]
                   IN IF entry.fc = key.fc /\ (key.tuple => entry.fi = key.fi)
                      THEN StoredAt(e1, heap', j)
                             = set_hass_value(e0.platform, StoredAt(e0, heap, j), call'.value)
                      ELSE StoredAt(e1, heap', j) = StoredAt(e0, heap, j)
             /\ (key.tuple /\ \A j \in 1..Len(e0.states.keys) :
                                  ~(e0.states.keys[j].fc = key.fc
                                      /\ e0.states.keys[j].fi = key.fi))
                   => heap' = heap]_vars

\* A write with a (class, instance) key has changed the StateValue of that
\* instance while another instance of the class holds a different value.
C25_Witness ==
    /\ call.op = "_set_state_value"
    /\ ~call.raised
    /\ call.key.tuple
    /\ LET e == entities[call.k]
       IN \E i, j \in 1..Len(e.states.keys) :
             /\ e.states.keys[i].fc = call.key.fc
             /\ e.states.keys[i].fi = call.key.fi
             /\ e.states.keys[j].fc = call.key.fc
             /\ e.states.keys[j].fi # call.key.fi
             /\ StoredAt(e, heap, i).value = call.value
             /\ StoredAt(e, heap, j).value # call.value

\* The labels of a list.
Labels(list) == {list[i] : i \in 1..Len(list)}

\* C26 - The orderable speed list of a fan is the labels of its fan-speed
\* descriptor in the order of their numeric suffix with exactly
\* "fan-speed-000" removed: every other declared label is in it, also when
\* the descriptor declares no "fan-speed-000".
C26_SpeedListDropsOnlyOff ==
    codec.step \in {"out", "back"} =>
       /\ Labels(codec.speeds) = NonOff(codec.in.names)
       /\ Len(codec.speeds) = Cardinality(NonOff(codec.in.names))
       /\ \A i, j \in 1..Len(codec.speeds) :
             i < j => IntOfLast3(codec.speeds[i]) < IntOfLast3(codec.speeds[j])

\* C27 - For every label of the fan-speed descriptor, "fan-speed-000"
\* included, a fan whose current fan speed is that label yields a percentage
\* without raising.
C27_PercentageTotalOverDescriptor ==
    (codec.step \in {"out", "back"} /\ codec.in.speed.s \in Labels(codec.in.names)) =>
       ~codec.out.raised

\* C28 - Fan-speed round trip: for every label of the orderable speed list,
\* the label set_percentage writes for the percentage of that label is the
\* label itself.
C28_FanSpeedRoundTrip ==
    (codec.step \in {"out", "back"} /\ codec.in.speed.s \in Labels(codec.speeds)) =>
       /\ ~codec.out.raised
       /\ codec.out.v.t = "num"
       /\ codec.step = "back" => codec.back = Ret(codec.in.speed)

\* The percentage of fan-speed-050, the second of four orderable speeds, has
\* been handed back to set_percentage, which wrote fan-speed-050.
C28_Witness ==
    /\ codec.step = "back"
    /\ codec.speeds = <<"fan-speed-025", "fan-speed-050", "fan-speed-075", "fan-speed-100">>
    /\ codec.in.speed = StrV("fan-speed-050")
    /\ codec.out = Ret(NumV(50))
    /\ codec.back = Ret(StrV("fan-speed-050"))

\* C29 - After set_preset_mode(m) has made its local writes the active preset
\* resolves to m, for "auto" and for every toggle instance the fan knows,
\* whatever toggle instances were enabled before.
C29_PresetSetThenGet ==
    [][(call.phase = "done" /\ call'.op = "set_preset_mode" /\ call'.phase = "push") =>
          preset_mode(entities'[call'.k], heap') = Ret(call'.cmd.arg)]_vars

\* C30 - Color-temperature bounds: for a descriptor that lists any "<kelvin>K"
\* labels in any order, min_mireds and max_mireds are the converted first and
\* last labels of the sorted value list, and min_mireds <= convert(v) <=
\* max_mireds for every listed label v.
C30_ColorTemperatureBounds ==
    (codec.step = "out" /\ codec.in # <<>>) =>
       /\ Labels(codec.values) = Labels(codec.in)
       /\ codec.min = _color_temp_to_hass(codec.values[1])
       /\ codec.max = _color_temp_to_hass(codec.values[Len(codec.values)])
       /\ \A v \in Labels(codec.in) :
             codec.min <= _color_temp_to_hass(v) /\ _color_temp_to_hass(v) <= codec.max

\* The bounds have been read for the five labels listed out of order: 153
\* mireds (6500K, 6510K) to 454 mireds (2200K).
C30_Witness ==
    /\ codec.step = "out"
    /\ codec.in = <<"2700K", "6500K", "2200K", "6510K", "5000K">>
    /\ codec.min = 153
    /\ codec.max = 454

====
